---- MODULE Spec2Model ----
(***************************************************************************)
(* A model of xml-stream-editor: the Transform stream that sits between    *)
(* the saxes tokenizer and the output, buffers the subtree of every        *)
(* element matched by a selector rule, hands it to the rule's edit         *)
(* function and writes the result.                                         *)
(*                                                                         *)
(* Strings are TLA+ strings; TLC treats them as sequences of characters,   *)
(* so Len, SubSeq and \o act on them as on JavaScript strings.             *)
(***************************************************************************)
EXTENDS Integers, Sequences, FiniteSets, TLC

(***************************************************************************)
(* Bounds of the model.                                                    *)
(***************************************************************************)
\* The number of tokenizer events (open, text, close, declaration, error)
\* of one run.
MaxEvents == 5

\* The nesting depth of the documents.
MaxDepth == 3

\* The number of chunks handed to _transform in one run.
MaxChunks == 2

\* The number of events of the longer documents, which are read with one
\* configuration and without parse errors.
MaxDeepEvents == 7

(***************************************************************************)
(* String helpers: the JavaScript string methods the source calls.         *)
(***************************************************************************)
\* String.prototype.endsWith
EndsWith(s, suffix) ==
    /\ Len(suffix) <= Len(s)
    /\ SubSeq(s, Len(s) - Len(suffix) + 1, Len(s)) = suffix

\* String.prototype.trim, over an alphabet whose only white space is " ".
RECURSIVE TrimStart(_)
TrimStart(s) ==
    IF Len(s) > 0 /\ SubSeq(s, 1, 1) = " "
    THEN TrimStart(SubSeq(s, 2, Len(s)))
    ELSE s

RECURSIVE TrimEnd(_)
TrimEnd(s) ==
    IF Len(s) > 0 /\ SubSeq(s, Len(s), Len(s)) = " "
    THEN TrimEnd(SubSeq(s, 1, Len(s) - 1))
    ELSE s

Trim(s) == TrimEnd(TrimStart(s))

\* s.replace(/ +/g, ' '): every run of spaces becomes one space.
RECURSIVE CollapseSpaces(_)
CollapseSpaces(s) ==
    IF Len(s) < 2 THEN s
    ELSE IF SubSeq(s, 1, 1) = " " /\ SubSeq(s, 2, 2) = " "
         THEN CollapseSpaces(SubSeq(s, 2, Len(s)))
         ELSE SubSeq(s, 1, 1) \o CollapseSpaces(SubSeq(s, 2, Len(s)))

\* The index of the first " " of s, or 0.
RECURSIVE IndexOfSpace(_, _)
IndexOfSpace(s, i) ==
    IF i > Len(s) THEN 0
    ELSE IF SubSeq(s, i, i) = " " THEN i
    ELSE IndexOfSpace(s, i + 1)

\* s.split(' '): the pieces between single spaces, empty pieces included
\* (''.split(' ') is ['']).
RECURSIVE SplitOnSpace(_)
SplitOnSpace(s) ==
    LET i == IndexOfSpace(s, 1)
    IN  IF i = 0 THEN <<s>>
        ELSE <<SubSeq(s, 1, i - 1)>> \o SplitOnSpace(SubSeq(s, i + 1, Len(s)))

\* Array.prototype.join('')
RECURSIVE JoinAll(_)
JoinAll(parts) ==
    IF parts = <<>> THEN ""
    ELSE Head(parts) \o JoinAll(Tail(parts))

(***************************************************************************)
(* The collaborators the source imports: xml-escape and                    *)
(* xml-name-validator, over the characters the model's inputs use.         *)
(***************************************************************************)
\* Mutant of EscapeChar: the ampersand is left as it is.
EscapeCharButAmpersand(c) ==
    CASE c = "<" -> "&lt;"
      [] c = ">" -> "&gt;"
      [] c = "\"" -> "&quot;"
      [] c = "'" -> "&apos;"
      [] OTHER -> c

\* xml-escape's map: the five characters it replaces.
EscapeChar(c) ==
    CASE c = "&" -> "&amp;"
      [] c = "<" -> "&lt;"
      [] c = ">" -> "&gt;"
      [] c = "\"" -> "&quot;"
      [] c = "'" -> "&apos;"
      [] OTHER -> c

RECURSIVE xmlescape(_)
xmlescape(s) ==
    IF Len(s) = 0 THEN ""
    ELSE EscapeChar(SubSeq(s, 1, 1)) \o xmlescape(SubSeq(s, 2, Len(s)))

\* The characters of the model's alphabet that may start an XML name, and
\* those that may follow.
NameStartChars ==
    {"a", "b", "c", "d", "e", "f", "g", "h", "i", "j", "k", "l", "m", "n", "o", "p", "q",
     "r", "s", "t", "u", "v", "w", "x", "y", "z", "_", ":"}
NameChars == NameStartChars \cup {"-", ".", "1"}

\* xnv.name: the Name production of XML.
xnvName(s) ==
    /\ Len(s) > 0
    /\ SubSeq(s, 1, 1) \in NameStartChars
    /\ \A i \in 2..Len(s) : SubSeq(s, i, i) \in NameChars

\* xnv.qname: a Name with at most one colon, which is neither first nor last.
xnvQname(s) ==
    /\ xnvName(s)
    /\ Cardinality({i \in 1..Len(s) : SubSeq(s, i, i) = ":"}) <= 1
    /\ SubSeq(s, 1, 1) # ":"
    /\ SubSeq(s, Len(s), Len(s)) # ":"

(***************************************************************************)
(* markup.ts                                                               *)
(***************************************************************************)
toAttrValue(value) == xmlescape(value)

\* An attribute map is a sequence of <<name, value>> pairs in insertion
\* order, the order Object.entries walks.
RECURSIVE AttrsMarkup(_)
AttrsMarkup(attributes) ==
    IF attributes = <<>> THEN ""
    ELSE " " \o Head(attributes)[1] \o "=\"" \o xmlescape(Head(attributes)[2])
             \o "\"" \o AttrsMarkup(Tail(attributes))

toOpenTag(nodeName, attributes) == "<" \o nodeName \o AttrsMarkup(attributes) \o ">"

toCloseTag(nodeName) == "</" \o nodeName \o ">"

toBodyText(text) == xmlescape(text)

(***************************************************************************)
(* selector.ts                                                             *)
(***************************************************************************)
pathSeparator == "@"

\* Mutant of PrefixEach: the pieces are joined without the separator.
PrefixNone(parts) == parts

\* x => pathSeparator + x, mapped over the pieces.
PrefixEach(parts) == [i \in 1..Len(parts) |-> pathSeparator \o parts[i]]

process(elementPath) ==
    LET collapsedWhiteSpace == CollapseSpaces(Trim(elementPath))
    IN  JoinAll(PrefixEach(SplitOnSpace(collapsedWhiteSpace)))

\* The pieces of the selector that are not XML names, in order.
InvalidNames(selector) ==
    SelectSeq(SplitOnSpace(selector), LAMBDA elmName : ~xnvName(elmName))

\* Mutant of validate: the selector is trimmed and its runs of spaces are
\* collapsed before it is split.
validateNormalised(selector) ==
    LET bad == SelectSeq(SplitOnSpace(CollapseSpaces(Trim(selector))),
                         LAMBDA elmName : ~xnvName(elmName))
    IN  IF bad = <<>> THEN <<TRUE, <<>> >>
        ELSE <<FALSE, <<[kind |-> "selector", selector |-> selector,
                         name |-> Head(bad)]>> >>

\* Mutant of validate: only the first piece of the selector is checked.
validateFirstPieceOnly(selector) ==
    IF xnvName(Head(SplitOnSpace(selector))) THEN <<TRUE, <<>> >>
    ELSE <<FALSE, <<[kind |-> "selector", selector |-> selector,
                     name |-> Head(SplitOnSpace(selector))]>> >>

\* Mutant of validate: the selector is checked as one name, not split.
validateWholeSelector(selector) ==
    IF xnvName(selector) THEN <<TRUE, <<>> >>
    ELSE <<FALSE, <<[kind |-> "selector", selector |-> selector, name |-> selector]>> >>

\* validate: <<isValid, error>>; the error names the selector and the first
\* piece that is not a name.
validate(selector) ==
    LET bad == InvalidNames(selector)
    IN  IF bad = <<>> THEN <<TRUE, <<>> >>
        ELSE <<FALSE, <<[kind |-> "selector", selector |-> selector,
                         name |-> Head(bad)]>> >>

\* new ElementPath(path)
ElementPath(path) == [path |-> path, pathForMatching |-> process(path)]

\* Mutant of append: the path of the parent is dropped.
appendWithoutParent(elementPath, elmName) == ElementPath(elmName)

\* ElementPath.append
append(elementPath, elmName) == ElementPath(elementPath.path \o " " \o elmName)

\* new SelectorRule(selector), for a selector that validate accepts.
SelectorRule(selector) ==
    [text |-> process(selector), pathForMatching |-> process(process(selector))]

\* Mutant of matches: the end of the path is compared with the selector less
\* its leading separator, so that the end of a name is enough.
matchesNameSuffix(elementPath, selector) ==
    EndsWith(elementPath.pathForMatching, SubSeq(selector.text, 2, Len(selector.text)))

\* ElementPath.matches
matches(elementPath, selector) == EndsWith(elementPath.pathForMatching, selector.text)

(***************************************************************************)
(* element.ts                                                              *)
(*                                                                         *)
(* An Element handed to or returned by an edit function is a record        *)
(* [name, attributes, text, children]: text is <<>> (undefined) or <<s>>,  *)
(* children a sequence of such records.  The ParsedElements the            *)
(* transformer builds live in a heap, a sequence of records whose          *)
(* children are heap indices, so that two references to one element are    *)
(* one index.  A heap element also names the attribute object and the      *)
(* children array it holds (attributesRef, childrenRef): the constructor   *)
(* of heap element n creates the objects numbered n.  Two elements that    *)
(* name the same object share it: a change made through one is seen        *)
(* through the other.                                                      *)
(***************************************************************************)
isValidName(s) == xnvQname(s)

\* new Element(name, attributes) / newElement
newElement(name, attributes) ==
    [name |-> name, attributes |-> attributes, text |-> <<>>, children |-> <<>>]

\* The Element constructor, for the heap element id: the attributes are
\* copied into a new object (JSON.parse(JSON.stringify(attributes))) and
\* the children field is initialised with a new, empty array.
Constructed(name, attributes, id) ==
    [name |-> name, attributes |-> attributes, text |-> <<>>, children |-> <<>>,
     attributesRef |-> id, childrenRef |-> id]

\* Mutant of fromSaxesNode: the attributes of the node are not copied.
fromSaxesNodeNoAttributes(node, id) == Constructed(node.name, <<>>, id)

\* ParsedElement.fromSaxesNode, creating the heap element id.
fromSaxesNode(node, id) == Constructed(node.name, node.attributes, id)

\* The attribute names of an attribute map that are not valid, in order.
InvalidAttrNames(attributes) ==
    SelectSeq([i \in 1..Len(attributes) |-> attributes[i][1]],
              LAMBDA attrName : ~isValidName(attrName))

\* Element.validate: <<>> when the element and all its descendants are
\* valid, else <<error>> for the first failure in the order the method
\* checks: own name, own attribute names, then each child in turn.
RECURSIVE ElementValidate(_)
RECURSIVE FirstChildError(_)
FirstChildError(children) ==
    IF children = <<>> THEN <<>>
    ELSE LET childError == ElementValidate(Head(children))
         IN  IF childError # <<>> THEN childError
             ELSE FirstChildError(Tail(children))

ElementValidate(element) ==
    IF ~isValidName(element.name)
    THEN <<[kind |-> "validation", detail |-> element.name]>>
    ELSE IF InvalidAttrNames(element.attributes) # <<>>
    THEN <<[kind |-> "validation", detail |-> Head(InvalidAttrNames(element.attributes))]>>
    ELSE FirstChildError(element.children)

\* The heap element id read as an Element: what its fields, and those of
\* its descendants, hold.
RECURSIVE ElementAt(_, _)
ElementAt(heap, id) ==
    [name |-> heap[id].name,
     attributes |-> heap[id].attributes,
     text |-> heap[id].text,
     children |-> [i \in 1..Len(heap[id].children) |-> ElementAt(heap, heap[id].children[i])]]

\* element.attributes[...] = ...: the attribute object of heap element id
\* holds attributes; every element that holds the same object sees it.
SetAttributes(heap, id, attributes) ==
    [k \in 1..Len(heap) |->
        IF heap[k].attributesRef = heap[id].attributesRef
        THEN [heap[k] EXCEPT !.attributes = attributes] ELSE heap[k]]

\* element.children.push(child): on the children array of heap element
\* id; every element that holds the same array sees it.
PushChild(heap, id, child) ==
    [k \in 1..Len(heap) |->
        IF heap[k].childrenRef = heap[id].childrenRef
        THEN [heap[k] EXCEPT !.children = Append(@, child)] ELSE heap[k]]

\* Mutant of ParsedElement.clone: the clone is given the children array of
\* the element it is made from.
cloneSharingChildren(heap, id) ==
    LET cloneElm == Len(heap) + 1
    IN  [heap |-> Append(heap,
                     [Constructed(heap[id].name, heap[id].attributes, cloneElm)
                         EXCEPT !.text = heap[id].text,
                                !.children = heap[id].children,
                                !.childrenRef = heap[id].childrenRef]),
         id |-> cloneElm]

\* ParsedElement.clone: a new heap element for the heap element id, with a
\* copy of its attributes, its text and a clone of every child.  The result
\* is the heap with the new elements and the index of the clone.
RECURSIVE clone(_, _)
RECURSIVE CloneChildren(_, _, _)
CloneChildren(heap, cloneElm, children) ==
    IF children = <<>> THEN heap
    ELSE LET child == clone(heap, Head(children))
         IN  CloneChildren(PushChild(child.heap, cloneElm, child.id), cloneElm,
                           Tail(children))

clone(heap, id) ==
    LET cloneElm == Len(heap) + 1
        created == Append(heap,
                      [Constructed(heap[id].name, heap[id].attributes, cloneElm)
                          EXCEPT !.text = heap[id].text])
    IN  [heap |-> CloneChildren(created, cloneElm, heap[id].children), id |-> cloneElm]

(***************************************************************************)
(* The edit functions of the modelled configurations (EditorFunc values:   *)
(* the ones of the tests and of the README).  The outcome of a call is     *)
(* [kind, node, error]: kind "node" with node = <<element>>, kind          *)
(* "undefined", or kind "throw" with error = <<value thrown>>.             *)
(***************************************************************************)
Returns(element) == [kind |-> "node", node |-> <<element>>, error |-> <<>>]
ReturnsUndefined == [kind |-> "undefined", node |-> <<>>, error |-> <<>>]
Throws(err) == [kind |-> "throw", node |-> <<>>, error |-> <<err>>]

\* element.text += '!': undefined + '!' is 'undefined!' in JavaScript.
TextPlus(text, more) == IF text = <<>> THEN <<"undefined" \o more>> ELSE <<text[1] \o more>>

\* element.attributes[name] = value
SetAttr(attributes, name, value) ==
    IF \E i \in 1..Len(attributes) : attributes[i][1] = name
    THEN [i \in 1..Len(attributes) |->
            IF attributes[i][1] = name THEN <<name, value>> ELSE attributes[i]]
    ELSE Append(attributes, <<name, value>>)

AddedElement == [newElement("n", << <<"k", "<">> >>) EXCEPT !.text = <<"c">>]

\* An edit function that changes every element of its argument: the text,
\* an attribute, and one more child.
RECURSIVE EditAll(_)
EditAll(element) ==
    [name |-> element.name,
     attributes |-> SetAttr(element.attributes, "k", "set"),
     text |-> TextPlus(element.text, "!"),
     children |-> Append([i \in 1..Len(element.children) |-> EditAll(element.children[i])],
                         AddedElement)]

EditorFunc(func, element) ==
    CASE func = "keep" -> Returns(element)
      [] func = "remove" -> ReturnsUndefined
      [] func = "throws" -> Throws([kind |-> "callback", detail |-> element.name])
      [] func = "editText" -> Returns([element EXCEPT !.text = TextPlus(@, "!")])
      [] func = "setAttr" -> Returns([element EXCEPT !.attributes = SetAttr(@, "k", "set")])
      [] func = "addChild" -> Returns([element EXCEPT !.children = Append(@, AddedElement)])
      [] func = "badName" -> Returns(newElement("bad name", <<>>))
      [] func = "badAttr" -> Returns([element EXCEPT !.children =
                                 Append(@, newElement("n", << <<"a:b:c", "v">> >>))])
      [] func = "editAll" -> Returns(EditAll(element))

\* The edit functions that return their argument, after changing it in
\* place or as it is; the others return nothing, throw, or return a new
\* element and leave their argument alone.
ReturnsArgument(func) ==
    func \in {"keep", "editText", "setAttr", "addChild", "badAttr", "editAll"}

\* The heap after an edit function has changed the heap element id in
\* place so that it reads as element: texts and attributes are assigned,
\* children that the heap element does not have are created and pushed.
\* None of the edit functions removes a child.
RECURSIVE ChangedInPlace(_, _, _)
RECURSIVE ChildrenChangedInPlace(_, _, _, _)
RECURSIVE Created(_, _)
Created(heap, element) ==
    LET id == Len(heap) + 1
        made == Append(heap, [Constructed(element.name, element.attributes, id)
                                 EXCEPT !.text = element.text])
    IN  [heap |-> ChildrenChangedInPlace(made, id, element.children, 1), id |-> id]

ChildrenChangedInPlace(heap, id, children, k) ==
    IF k > Len(children) THEN heap
    ELSE IF k <= Len(heap[id].children)
    THEN ChildrenChangedInPlace(ChangedInPlace(heap, heap[id].children[k], children[k]),
                                id, children, k + 1)
    ELSE LET child == Created(heap, children[k])
         IN  ChildrenChangedInPlace(PushChild(child.heap, id, child.id), id, children, k + 1)

ChangedInPlace(heap, id, element) ==
    ChildrenChangedInPlace(
        SetAttributes([heap EXCEPT ![id].text = element.text], id, element.attributes),
        id, element.children, 1)

\* The heap elements an edit function can reach from its argument id.
RECURSIVE Reachable(_, _)
Reachable(heap, id) ==
    {id} \cup UNION {Reachable(heap, heap[id].children[i]) : i \in 1..Len(heap[id].children)}

\* The heap elements among the first n that the argument id gives access
\* to: the ones that can be reached from it, and the ones whose attribute
\* object or children array an element reached from it holds.
SharedWith(heap, id, n) ==
    {k \in 1..n : \E r \in Reachable(heap, id) :
        \/ r = k
        \/ heap[r].attributesRef = heap[k].attributesRef
        \/ heap[r].childrenRef = heap[k].childrenRef}

(***************************************************************************)
(* xml-stream-editor.ts: the transformer.                                  *)
(*                                                                         *)
(* A machine state st is the record of the transformer's private fields    *)
(* (parseStack, elmToEditInfo, error), its heap of ParsedElements, what it *)
(* has pushed to the readable side, and the state of its saxes parser      *)
(* (tags, parserClosed).  The handlers are functions from a machine state  *)
(* to the next one.                                                        *)
(***************************************************************************)
\* XMLStreamEditorTransformer.defaultOptions
defaultOptions == [validate |-> TRUE]

\* Mutant of MergedOptions: the option given is not looked at.
MergedOptionsIgnoringGiven(validateGiven) == defaultOptions

\* The constructor's mergedOptions: options?.validate ?? defaultOptions.validate
MergedOptions(validateGiven) ==
    [validate |-> IF validateGiven = <<>> THEN defaultOptions.validate
                  ELSE validateGiven[1]]

\* What the constructor's loop throws: <<>> when every selector passes
\* validate, else <<error>> of the first entry, in the order of
\* Object.entries(editingRules), whose selector does not.  The loop runs
\* before the parser is created.
ConstructorError(editingRules) ==
    LET rejected == SelectSeq([i \in 1..Len(editingRules) |-> editingRules[i][1]],
                              LAMBDA selector : ~validate(selector)[1])
    IN  IF rejected = <<>> THEN <<>> ELSE validate(Head(rejected))[2]

\* The constructor's loop: one [selector, func] entry per rule, in the
\* order of Object.entries(editingRules).
ConstructRules(editingRules) ==
    [i \in 1..Len(editingRules) |->
        [selector |-> SelectorRule(editingRules[i][1]), func |-> editingRules[i][2]]]

\* The fields right after the constructor.
NewMachine ==
    [parseStack |-> <<>>, elmToEditInfo |-> <<>>, error |-> <<>>, heap |-> <<>>,
     pushed |-> <<>>, tags |-> <<>>, parserClosed |-> FALSE, assertFailed |-> FALSE,
     calls |-> <<>>, consulted |-> 0, handled |-> 0]

\* Mutant of #pushParsedElementToStack: the path is made from the path of
\* the bottom of the stack, not of its top.
pushParsedElementToStackFromBottom(st, id) ==
    LET name == st.heap[id].name
        pathToElement ==
            IF st.parseStack # <<>>
            THEN append(st.parseStack[1].path, name)
            ELSE ElementPath(name)
    IN  [st EXCEPT !.parseStack = Append(@, [element |-> id, path |-> pathToElement])]

\* #pushParsedElementToStack, for the heap element id.
pushParsedElementToStack(st, id) ==
    LET name == st.heap[id].name
        pathToElement ==
            IF st.parseStack # <<>>
            THEN append(st.parseStack[Len(st.parseStack)].path, name)
            ELSE ElementPath(name)
    IN  [st EXCEPT !.parseStack = Append(@, [element |-> id, path |-> pathToElement])]

\* The indices of the rules the top of the stack matches.
MatchingRules(st, rules) ==
    {i \in 1..Len(rules) :
        matches(st.parseStack[Len(st.parseStack)].path, rules[i].selector)}

\* Mutant of FirstMatch: the loop goes on to the last entry that matches.
LastMatch(indices) == CHOOSE i \in indices : \A j \in indices : i >= j

\* The rule the loop of #doesStackMatchEditingRule returns at: the first
\* entry of the map that matches.
FirstMatch(indices) == CHOOSE i \in indices : \A j \in indices : i <= j

\* #doesStackMatchEditingRule: <<>> (null) or <<ElementToEditInfo>>.
doesStackMatchEditingRule(st, rules) ==
    LET found == MatchingRules(st, rules)
    IN  IF found = {} THEN <<>>
        ELSE <<[selector |-> rules[FirstMatch(found)].selector,
                func |-> rules[FirstMatch(found)].func,
                element |-> st.parseStack[Len(st.parseStack)].element]>>

isInSubtreeToBeEdited(st) == st.elmToEditInfo # <<>>

\* Mutant of #writeElementToStream: the children are written before the
\* text.
RECURSIVE writeChildrenBeforeText(_)
RECURSIVE WriteChildrenFirst(_)
WriteChildrenFirst(children) ==
    IF children = <<>> THEN <<>>
    ELSE writeChildrenBeforeText(Head(children)) \o WriteChildrenFirst(Tail(children))

writeChildrenBeforeText(element) ==
    <<toOpenTag(element.name, element.attributes)>>
    \o WriteChildrenFirst(element.children)
    \o (IF element.text # <<>> /\ element.text[1] # ""
        THEN <<toBodyText(element.text[1])>> ELSE <<>>)
    \o <<toCloseTag(element.name)>>

\* #writeElementToStream: the strings it pushes, in order.
RECURSIVE writeElementToStream(_)
RECURSIVE WriteChildren(_)
WriteChildren(children) ==
    IF children = <<>> THEN <<>>
    ELSE writeElementToStream(Head(children)) \o WriteChildren(Tail(children))

writeElementToStream(element) ==
    <<toOpenTag(element.name, element.attributes)>>
    \o (IF element.text # <<>> /\ element.text[1] # ""
        THEN <<toBodyText(element.text[1])>> ELSE <<>>)
    \o WriteChildren(element.children)
    \o <<toCloseTag(element.name)>>

\* Mutant of the 'error' handler: the parser is closed too.
OnErrorClosingParser(st, err) == [st EXCEPT !.error = <<err>>, !.parserClosed = TRUE]

\* The 'error' handler.
OnError(st, err) == [st EXCEPT !.error = <<err>>]

\* saxes' close() is write(null), which ends the document: it reports
\* "unclosed tag" through the error handler for every tag still open,
\* innermost first, and leaves the parser with no open tag.  Called from
\* inside a handler, the rest of the chunk being written yields no event.
RECURSIVE ReportUnclosed(_, _)
ReportUnclosed(st, tags) ==
    IF tags = <<>> THEN st
    ELSE ReportUnclosed(OnError(st, [kind |-> "unclosed", detail |-> tags[Len(tags)]]),
                        SubSeq(tags, 1, Len(tags) - 1))

xmlParserClose(st) ==
    [ReportUnclosed(st, st.tags) EXCEPT !.tags = <<>>, !.parserClosed = TRUE]

\* Mutant of the catch block: what was pushed is withdrawn.
CatchErrorDroppingOutput(st, err) ==
    [st EXCEPT !.error = <<err>>, !.pushed = <<>>, !.tags = <<>>, !.parserClosed = TRUE]

\* Mutant of the catch block: the error is recorded and the parser is left
\* open.
CatchErrorLeavingParserOpen(st, err) == [st EXCEPT !.error = <<err>>]

\* The catch block of #callUserFuncOnCompletedElementAndWriteToStream.
CatchError(st, err) == xmlParserClose([st EXCEPT !.error = <<err>>])

\* Mutant of #callUserFuncOnCompletedElementAndWriteToStream: the region is
\* cleared only when the edit function returned a node.
callUserFuncKeepingRegionWhenUndefined(st, options) ==
    LET info == st.elmToEditInfo[1]
        cloned == clone(st.heap, info.element)
        clonedElm == ElementAt(cloned.heap, cloned.id)
        outcome == EditorFunc(info.func, clonedElm)
        after == IF outcome.kind = "node" /\ ReturnsArgument(info.func)
                 THEN ChangedInPlace(cloned.heap, cloned.id, outcome.node[1])
                 ELSE cloned.heap
        called == [st EXCEPT !.heap = SubSeq(after, 1, Len(st.heap)),
                             !.calls = Append(@,
                      [element |-> info.element, selector |-> info.selector.text,
                       func |-> info.func, arg |-> clonedElm, outcome |-> outcome,
                       at |-> st.handled, pushedBefore |-> Len(st.pushed),
                       shared |-> SharedWith(cloned.heap, cloned.id, Len(st.heap))])]
    IN  IF outcome.kind = "throw" THEN CatchError(called, outcome.error[1])
        ELSE IF outcome.kind = "undefined" THEN called
        ELSE LET editedElm == outcome.node[1]
                 invalid == IF options.validate THEN ElementValidate(editedElm) ELSE <<>>
             IN  IF invalid # <<>> THEN CatchError(called, invalid[1])
                 ELSE [called EXCEPT !.pushed = @ \o writeElementToStream(editedElm),
                                     !.elmToEditInfo = <<>>]

\* #callUserFuncOnCompletedElementAndWriteToStream
callUserFuncOnCompletedElementAndWriteToStream(st, options) ==
    LET info == st.elmToEditInfo[1]
        cloned == clone(st.heap, info.element)
        clonedElm == ElementAt(cloned.heap, cloned.id)
        outcome == EditorFunc(info.func, clonedElm)
        after == IF outcome.kind = "node" /\ ReturnsArgument(info.func)
                 THEN ChangedInPlace(cloned.heap, cloned.id, outcome.node[1])
                 ELSE cloned.heap
        called == [st EXCEPT !.heap = SubSeq(after, 1, Len(st.heap)),
                             !.calls = Append(@,
                      [element |-> info.element, selector |-> info.selector.text,
                       func |-> info.func, arg |-> clonedElm, outcome |-> outcome,
                       at |-> st.handled, pushedBefore |-> Len(st.pushed),
                       shared |-> SharedWith(cloned.heap, cloned.id, Len(st.heap))])]
    IN  IF outcome.kind = "throw" THEN CatchError(called, outcome.error[1])
        ELSE IF outcome.kind = "undefined"
        THEN [called EXCEPT !.elmToEditInfo = <<>>]
        ELSE LET editedElm == outcome.node[1]
                 invalid == IF options.validate THEN ElementValidate(editedElm) ELSE <<>>
             IN  IF invalid # <<>> THEN CatchError(called, invalid[1])
                 ELSE [called EXCEPT !.pushed = @ \o writeElementToStream(editedElm),
                                     !.elmToEditInfo = <<>>]

\* Mutant of the 'opentag' handler: the rules are checked for an element
\* inside a subtree being edited too.
OnOpenTagRematching(st, rules, node) ==
    LET id == Len(st.heap) + 1
        stacked == pushParsedElementToStack(
                       [st EXCEPT !.heap = Append(@, fromSaxesNode(node, id))], id)
        matchingElementInfo == doesStackMatchEditingRule(stacked, rules)
        asked == [stacked EXCEPT !.consulted = @ + 1]
    IN  IF matchingElementInfo # <<>>
        THEN [asked EXCEPT !.elmToEditInfo = matchingElementInfo]
        ELSE IF isInSubtreeToBeEdited(stacked) THEN asked
        ELSE [asked EXCEPT !.pushed =
                 Append(@, toOpenTag(stacked.heap[id].name, stacked.heap[id].attributes))]

\* Mutant of the 'opentag' handler: the open tag of an element that matches
\* no rule is written without its attributes.
OnOpenTagBare(st, rules, node) ==
    LET id == Len(st.heap) + 1
        stacked == pushParsedElementToStack(
                       [st EXCEPT !.heap = Append(@, fromSaxesNode(node, id))], id)
    IN  IF isInSubtreeToBeEdited(stacked) THEN stacked
        ELSE LET matchingElementInfo == doesStackMatchEditingRule(stacked, rules)
                 asked == [stacked EXCEPT !.consulted = @ + 1]
             IN  IF matchingElementInfo # <<>>
                 THEN [asked EXCEPT !.elmToEditInfo = matchingElementInfo]
                 ELSE [asked EXCEPT !.pushed = Append(@, toOpenTag(stacked.heap[id].name, <<>>))]

\* Mutant of the 'opentag' handler: an element opened inside the subtree
\* being edited is added to the children of its parent at once.
OnOpenTagAttaching(st, rules, node) ==
    LET id == Len(st.heap) + 1
        stacked == pushParsedElementToStack(
                       [st EXCEPT !.heap = Append(@, fromSaxesNode(node, id))], id)
    IN  IF isInSubtreeToBeEdited(stacked)
        THEN [stacked EXCEPT !.heap = PushChild(@, st.parseStack[Len(st.parseStack)].element, id)]
        ELSE LET matchingElementInfo == doesStackMatchEditingRule(stacked, rules)
                 asked == [stacked EXCEPT !.consulted = @ + 1]
             IN  IF matchingElementInfo # <<>>
                 THEN [asked EXCEPT !.elmToEditInfo = matchingElementInfo]
                 ELSE [asked EXCEPT !.pushed =
                          Append(@, toOpenTag(stacked.heap[id].name, stacked.heap[id].attributes))]

\* The 'opentag' handler.
OnOpenTag(st, rules, node) ==
    LET id == Len(st.heap) + 1
        stacked == pushParsedElementToStack(
                       [st EXCEPT !.heap = Append(@, fromSaxesNode(node, id))], id)
    IN  IF isInSubtreeToBeEdited(stacked) THEN stacked
        ELSE LET matchingElementInfo == doesStackMatchEditingRule(stacked, rules)
                 asked == [stacked EXCEPT !.consulted = @ + 1]
             IN  IF matchingElementInfo # <<>>
                 THEN [asked EXCEPT !.elmToEditInfo = matchingElementInfo]
                 ELSE [asked EXCEPT !.pushed =
                          Append(@, toOpenTag(stacked.heap[id].name, stacked.heap[id].attributes))]

\* Mutant of the 'text' handler: the text of a subtree being edited is
\* buffered and written at once too.
OnTextWritingThrough(st, text) ==
    IF isInSubtreeToBeEdited(st)
    THEN IF st.parseStack = <<>> THEN [st EXCEPT !.assertFailed = TRUE]
         ELSE [st EXCEPT !.heap[st.parseStack[Len(st.parseStack)].element].text = <<text>>,
                         !.pushed = Append(@, toBodyText(text))]
    ELSE [st EXCEPT !.pushed = Append(@, toBodyText(text))]

\* Mutant of the 'text' handler: the text is added to the text the element
\* on top of the stack already has.
OnTextAppending(st, text) ==
    IF isInSubtreeToBeEdited(st)
    THEN IF st.parseStack = <<>> THEN [st EXCEPT !.assertFailed = TRUE]
         ELSE [st EXCEPT !.heap[st.parseStack[Len(st.parseStack)].element].text =
                             IF @ = <<>> THEN <<text>> ELSE <<@[1] \o text>>]
    ELSE [st EXCEPT !.pushed = Append(@, toBodyText(text))]

\* The 'text' handler.
OnText(st, text) ==
    IF isInSubtreeToBeEdited(st)
    THEN IF st.parseStack = <<>> THEN [st EXCEPT !.assertFailed = TRUE]
         ELSE [st EXCEPT !.heap[st.parseStack[Len(st.parseStack)].element].text = <<text>>]
    ELSE [st EXCEPT !.pushed = Append(@, toBodyText(text))]

\* The 'xmldecl' handler; a field of decl is <<>> (absent) or <<value>>.
OnXmlDecl(st, decl) ==
    LET encoding == IF decl.encoding # <<>> /\ decl.encoding[1] # ""
                    THEN " encoding=\"" \o toAttrValue(decl.encoding[1]) \o "\"" ELSE ""
        standalone == IF decl.standalone # <<>> /\ decl.standalone[1] # ""
                      THEN " standalone=\"" \o toAttrValue(decl.standalone[1]) \o "\"" ELSE ""
    IN  [st EXCEPT !.pushed =
            Append(@, "<?xml version=\"1.0\"" \o encoding \o standalone \o "?>")]

\* Mutant of the 'closetag' handler: the edit function is called at the
\* close tag of every element of the subtree being edited.
OnCloseTagOfAnyBuffered(st, options, node) ==
    IF st.parseStack = <<>> THEN [st EXCEPT !.assertFailed = TRUE]
    ELSE
    LET popped == [st EXCEPT !.parseStack = SubSeq(@, 1, Len(@) - 1)]
    IN  IF ~isInSubtreeToBeEdited(popped)
        THEN [popped EXCEPT !.pushed = Append(@, toCloseTag(node.name))]
        ELSE callUserFuncOnCompletedElementAndWriteToStream(popped, options)

\* Mutant of the 'closetag' handler: a completed child is put before the
\* children its parent already has.
OnCloseTagPrepending(st, options, node) ==
    IF st.parseStack = <<>> THEN [st EXCEPT !.assertFailed = TRUE]
    ELSE
    LET completedElm == st.parseStack[Len(st.parseStack)].element
        popped == [st EXCEPT !.parseStack = SubSeq(@, 1, Len(@) - 1)]
    IN  IF ~isInSubtreeToBeEdited(popped)
        THEN [popped EXCEPT !.pushed = Append(@, toCloseTag(node.name))]
        ELSE IF completedElm = popped.elmToEditInfo[1].element
        THEN callUserFuncOnCompletedElementAndWriteToStream(popped, options)
        ELSE IF popped.parseStack = <<>> THEN [popped EXCEPT !.assertFailed = TRUE]
        ELSE [popped EXCEPT
                !.heap[popped.parseStack[Len(popped.parseStack)].element].children =
                    <<completedElm>> \o @]

\* Mutant of the 'closetag' handler: the root of the subtree that was
\* edited is added to the children of its parent, as a completed child is.
OnCloseTagAttachingRoot(st, options, node) ==
    IF st.parseStack = <<>> THEN [st EXCEPT !.assertFailed = TRUE]
    ELSE
    LET completedElm == st.parseStack[Len(st.parseStack)].element
        popped == [st EXCEPT !.parseStack = SubSeq(@, 1, Len(@) - 1)]
    IN  IF ~isInSubtreeToBeEdited(popped)
        THEN [popped EXCEPT !.pushed = Append(@, toCloseTag(node.name))]
        ELSE IF completedElm = popped.elmToEditInfo[1].element /\ popped.parseStack = <<>>
        THEN callUserFuncOnCompletedElementAndWriteToStream(popped, options)
        ELSE IF completedElm = popped.elmToEditInfo[1].element
        THEN LET called == callUserFuncOnCompletedElementAndWriteToStream(popped, options)
             IN  [called EXCEPT
                    !.heap[popped.parseStack[Len(popped.parseStack)].element].children =
                        Append(@, completedElm)]
        ELSE [popped EXCEPT
                !.heap[popped.parseStack[Len(popped.parseStack)].element].children =
                    Append(@, completedElm)]

\* The 'closetag' handler.
OnCloseTag(st, options, node) ==
    IF st.parseStack = <<>> THEN [st EXCEPT !.assertFailed = TRUE]
    ELSE
    LET completedElm == st.parseStack[Len(st.parseStack)].element
        popped == [st EXCEPT !.parseStack = SubSeq(@, 1, Len(@) - 1)]
    IN  IF ~isInSubtreeToBeEdited(popped)
        THEN [popped EXCEPT !.pushed = Append(@, toCloseTag(node.name))]
        ELSE IF completedElm = popped.elmToEditInfo[1].element
        THEN callUserFuncOnCompletedElementAndWriteToStream(popped, options)
        ELSE IF popped.parseStack = <<>> THEN [popped EXCEPT !.assertFailed = TRUE]
        ELSE [popped EXCEPT
                !.heap[popped.parseStack[Len(popped.parseStack)].element].children =
                    Append(@, completedElm)]

(***************************************************************************)
(* The saxes parser, as the transformer sees it: while write(chunk) runs   *)
(* it calls the handlers, one event after the other.  It keeps its own     *)
(* stack of open tags: an open tag is pushed after the 'opentag' handler   *)
(* returns, popped before the 'closetag' handler is called.  An event is   *)
(* [type, node, text, decl, err].                                          *)
(***************************************************************************)
NoNode == [name |-> "", attributes |-> <<>>]
NoDecl == [version |-> <<>>, encoding |-> <<>>, standalone |-> <<>>]
NoErr == [kind |-> "", detail |-> ""]

OpenTagEvent(node) ==
    [type |-> "opentag", node |-> node, text |-> "", decl |-> NoDecl, err |-> NoErr]
TextEvent(text) ==
    [type |-> "text", node |-> NoNode, text |-> text, decl |-> NoDecl, err |-> NoErr]
CloseTagEvent(name) ==
    [type |-> "closetag", node |-> [name |-> name, attributes |-> <<>>], text |-> "",
     decl |-> NoDecl, err |-> NoErr]
XmlDeclEvent(decl) ==
    [type |-> "xmldecl", node |-> NoNode, text |-> "", decl |-> decl, err |-> NoErr]
ErrorEvent(err) ==
    [type |-> "error", node |-> NoNode, text |-> "", decl |-> NoDecl, err |-> err]

\* One event: the parser's own bookkeeping and the handler it calls.
Dispatch(st, rules, options, ev) ==
    LET counted == [st EXCEPT !.handled = @ + 1]
    IN  CASE ev.type = "opentag" ->
                [OnOpenTag(counted, rules, ev.node) EXCEPT !.tags = Append(@, ev.node.name)]
          [] ev.type = "text" -> OnText(counted, ev.text)
          [] ev.type = "closetag" ->
                OnCloseTag([counted EXCEPT !.tags = SubSeq(@, 1, Len(@) - 1)],
                           options, ev.node)
          [] ev.type = "xmldecl" -> OnXmlDecl(counted, ev.decl)
          [] ev.type = "error" -> OnError(counted, ev.err)

\* The machine after a sequence of events, from a new transformer.
RECURSIVE Replay(_, _, _)
Replay(rules, options, evs) ==
    IF evs = <<>> THEN NewMachine
    ELSE Dispatch(Replay(rules, options, SubSeq(evs, 1, Len(evs) - 1)),
                  rules, options, evs[Len(evs)])

(***************************************************************************)
(* The inputs of the model.                                                *)
(***************************************************************************)
\* The open tags of the documents.
TagNodes ==
    { [name |-> "a", attributes |-> <<>>],
      [name |-> "b", attributes |-> << <<"k", "&">>, <<"m", "v">> >>],
      [name |-> "xb", attributes |-> <<>>] }

\* The text spans of the documents.
Texts == {"t", "<&"}

\* The XML declarations of the documents.
Decls ==
    { [version |-> <<"1.0">>, encoding |-> <<>>, standalone |-> <<>>],
      [version |-> <<"1.1">>, encoding |-> <<"utf-8">>, standalone |-> <<"yes">>] }

\* What the parser reports for malformed input.
ParseErrors == { [kind |-> "parse", detail |-> "malformed"] }

\* The configurations createXMLEditor is called with: the editing rules as
\* the entries of the caller's object, in declaration order, and the
\* validate option: <<>> when no options are given or validate is left
\* out, else <<TRUE>> or <<FALSE>>.
Configs ==
    { [editingRules |-> <<>>, validate |-> <<>>],
      [editingRules |-> << <<"a b", "editText">>, <<"b", "remove">> >>,
       validate |-> <<TRUE>>],
      [editingRules |-> << <<"b", "addChild">>, <<"a xb", "setAttr">> >>, validate |-> <<>>],
      [editingRules |-> << <<"xb b", "keep">>, <<"b", "throws">>, <<"a xb", "badName">> >>,
       validate |-> <<>>],
      [editingRules |-> << <<"b", "badAttr">>, <<"xb", "badName">> >>,
       validate |-> <<FALSE>>],
      [editingRules |-> << <<"a", "keep">>, <<"a 1b", "remove">> >>, validate |-> <<>>],
      [editingRules |-> << <<" a   b ", "keep">> >>, validate |-> <<>>],
      [editingRules |-> << <<"a  b", "keep">> >>, validate |-> <<>>],
      [editingRules |-> << <<"b", "keep">>, <<" a", "keep">> >>, validate |-> <<>>],
      [editingRules |-> << <<"a ", "keep">> >>, validate |-> <<>>] }

(***************************************************************************)
(* The state: the transformer's fields, its parser, the stream around it.  *)
(***************************************************************************)
VARIABLES
    editingRules,   \* the editingRules argument of createXMLEditor
    rules,          \* #rules: the entries of the map, in insertion order
    options,        \* #options
    validateOption, \* options?.validate as given: <<>> or <<boolean>>
    thrown,         \* what createXMLEditor threw: <<>> or <<error>>
    parseStack,     \* #parseStack
    elmToEditInfo,  \* #elmToEditInfo: <<>> or <<info>>
    error,          \* #error: <<>> or <<error>>
    heap,           \* the ParsedElements created so far
    pushed,         \* the strings pushed to the readable side, in order
    tags,           \* the parser's stack of open tags
    parserClosed,   \* the parser was closed
    assertFailed,   \* an assert of a handler failed
    calls,          \* the calls of edit functions made so far
    consulted,      \* the number of calls of #doesStackMatchEditingRule
    handled,        \* the number of events handled
    pc,             \* "idle", "write" inside xmlParser.write(chunk), or "threw"
                    \* when the constructor threw and there is no transformer
    chunks,         \* the number of _transform calls made
    reported,       \* the argument of each completion callback, in order
    events,         \* the events the parser has delivered, in order
    sawRoot,        \* the parser has seen the root's open tag
    unedited        \* a transformer without rules that is fed the same events

machineVars == <<parseStack, elmToEditInfo, error, heap, pushed, tags, parserClosed,
                 assertFailed, calls, consulted, handled>>
configVars == <<editingRules, rules, options, validateOption, thrown>>
vars == <<configVars, machineVars, pc, chunks, reported, events, sawRoot, unedited>>

Machine ==
    [parseStack |-> parseStack, elmToEditInfo |-> elmToEditInfo, error |-> error,
     heap |-> heap, pushed |-> pushed, tags |-> tags, parserClosed |-> parserClosed,
     assertFailed |-> assertFailed, calls |-> calls, consulted |-> consulted,
     handled |-> handled]

Becomes(st) ==
    /\ parseStack' = st.parseStack
    /\ elmToEditInfo' = st.elmToEditInfo
    /\ error' = st.error
    /\ heap' = st.heap
    /\ pushed' = st.pushed
    /\ tags' = st.tags
    /\ parserClosed' = st.parserClosed
    /\ assertFailed' = st.assertFailed
    /\ calls' = st.calls
    /\ consulted' = st.consulted
    /\ handled' = st.handled

\* The configuration the longer documents are read with.
DeepConfigs ==
    { [editingRules |-> << <<"b", "keep">>, <<"a xb", "addChild">> >>, validate |-> <<>>] }

\* The state after createXMLEditor(editingRules, options), for the
\* configurations of configs.
InitWith(configs) ==
    /\ \E c \in configs :
          /\ editingRules = c.editingRules
          /\ thrown = ConstructorError(c.editingRules)
          /\ rules = IF thrown = <<>> THEN ConstructRules(c.editingRules) ELSE <<>>
          /\ validateOption = c.validate
          /\ options = MergedOptions(c.validate)
    /\ parseStack = NewMachine.parseStack
    /\ elmToEditInfo = NewMachine.elmToEditInfo
    /\ error = NewMachine.error
    /\ heap = NewMachine.heap
    /\ pushed = NewMachine.pushed
    /\ tags = NewMachine.tags
    /\ parserClosed = NewMachine.parserClosed
    /\ assertFailed = NewMachine.assertFailed
    /\ calls = NewMachine.calls
    /\ consulted = NewMachine.consulted
    /\ handled = NewMachine.handled
    /\ pc = IF thrown = <<>> THEN "idle" ELSE "threw"
    /\ chunks = 0
    /\ reported = <<>>
    /\ events = <<>>
    /\ sawRoot = FALSE
    /\ unedited = NewMachine

Init == InitWith(Configs)

DeepInit == InitWith(DeepConfigs)

\* The parser delivers ev while write(chunk) runs; at most max events are
\* delivered.
DeliverUpTo(ev, max) ==
    /\ pc = "write"
    /\ ~parserClosed
    /\ Len(events) < max
    /\ Becomes(Dispatch(Machine, rules, options, ev))
    /\ events' = Append(events, ev)
    /\ unedited' = Dispatch(unedited, <<>>, options, ev)
    /\ UNCHANGED <<configVars, pc, chunks, reported>>

Deliver(ev) == DeliverUpTo(ev, MaxEvents)

\* Mutant of TransformReject: the chunk is written to the parser although an
\* error is recorded.
TransformWriteDespiteError ==
    /\ pc = "idle"
    /\ chunks < MaxChunks
    /\ error # <<>>
    /\ chunks' = chunks + 1
    /\ pc' = "write"
    /\ UNCHANGED <<configVars, machineVars, reported, events, sawRoot, unedited>>

\* _transform with an error recorded: the chunk is rejected.
TransformReject ==
    /\ pc = "idle"
    /\ chunks < MaxChunks
    /\ error # <<>>
    /\ chunks' = chunks + 1
    /\ reported' = Append(reported, error)
    /\ UNCHANGED <<configVars, machineVars, pc, events, sawRoot, unedited>>

\* _transform without an error recorded: xmlParser.write(chunk) starts.
TransformWrite ==
    /\ pc = "idle"
    /\ chunks < MaxChunks
    /\ error = <<>>
    /\ chunks' = chunks + 1
    /\ pc' = "write"
    /\ UNCHANGED <<configVars, machineVars, reported, events, sawRoot, unedited>>

\* Mutant of TransformReturn: the completion callback is called without an
\* error, whatever was recorded while the chunk was written.
TransformReturnWithoutError ==
    /\ pc = "write"
    /\ pc' = "idle"
    /\ reported' = Append(reported, <<>>)
    /\ UNCHANGED <<configVars, machineVars, chunks, events, sawRoot, unedited>>

\* xmlParser.write(chunk) has returned: the completion callback is called
\* with the error recorded, if any.
TransformReturn ==
    /\ pc = "write"
    /\ pc' = "idle"
    /\ reported' = Append(reported, error)
    /\ UNCHANGED <<configVars, machineVars, chunks, events, sawRoot, unedited>>

OpenTag ==
    \E node \in TagNodes :
        /\ Len(tags) < MaxDepth
        /\ tags = <<>> => ~sawRoot
        /\ Deliver(OpenTagEvent(node))
        /\ sawRoot' = TRUE

\* The character data between two tags is one text event.
Text ==
    \E text \in Texts :
        /\ tags # <<>>
        /\ events[Len(events)].type # "text"
        /\ Deliver(TextEvent(text))
        /\ UNCHANGED sawRoot

CloseTag ==
    /\ tags # <<>>
    /\ Deliver(CloseTagEvent(tags[Len(tags)]))
    /\ UNCHANGED sawRoot

XmlDecl ==
    \E decl \in Decls :
        /\ events = <<>>
        /\ Deliver(XmlDeclEvent(decl))
        /\ UNCHANGED sawRoot

ParseError ==
    \E err \in ParseErrors :
        /\ error = <<>>
        /\ Deliver(ErrorEvent(err))
        /\ UNCHANGED sawRoot

Next ==
    \/ TransformReject
    \/ TransformWrite
    \/ TransformReturn
    \/ OpenTag
    \/ Text
    \/ CloseTag
    \/ XmlDecl
    \/ ParseError

Spec == Init /\ [][Next]_vars

\* The longer documents: the same steps, up to MaxDeepEvents events.
DeepOpenTag ==
    \E node \in TagNodes :
        /\ Len(tags) < MaxDepth
        /\ tags = <<>> => ~sawRoot
        /\ DeliverUpTo(OpenTagEvent(node), MaxDeepEvents)
        /\ sawRoot' = TRUE

DeepText ==
    \E text \in Texts :
        /\ tags # <<>>
        /\ events[Len(events)].type # "text"
        /\ DeliverUpTo(TextEvent(text), MaxDeepEvents)
        /\ UNCHANGED sawRoot

DeepCloseTag ==
    /\ tags # <<>>
    /\ DeliverUpTo(CloseTagEvent(tags[Len(tags)]), MaxDeepEvents)
    /\ UNCHANGED sawRoot

DeepNext ==
    \/ TransformWrite
    \/ TransformReturn
    \/ DeepOpenTag
    \/ DeepText
    \/ DeepCloseTag

DeepSpec == DeepInit /\ [][DeepNext]_vars

(***************************************************************************)
(* The longer documents, read with edit functions that change every        *)
(* element of their argument.                                              *)
(***************************************************************************)
CloneConfigs ==
    { [editingRules |-> << <<"b", "editAll">>, <<"a xb", "editAll">> >>, validate |-> <<>>] }

CloneInit == InitWith(CloneConfigs)

CloneSpec == CloneInit /\ [][DeepNext]_vars

\* Edit functions that return a node with an invalid name for the document
\* root, with validation left on.
InvalidRootConfigs ==
    { [editingRules |-> << <<"b", "badName">>, <<"a", "badAttr">> >>, validate |-> <<>>] }

InvalidRootInit == InitWith(InvalidRootConfigs)

InvalidRootSpec == InvalidRootInit /\ [][Next]_vars

(***************************************************************************)
(* The end of the input.  The class defines _transform only: it has no     *)
(* _flush and no _final, so when the writable side is ended after the last *)
(* chunk's callback the stream ends the readable side and calls nothing of *)
(* the transformer; the parser is not closed.                              *)
(***************************************************************************)
\* Mutant of TransformEnd: the parser is closed at the end of the input, as
\* a _flush would do, and the error it reports for a tag left open is
\* recorded and handed to the stream.
TransformEndClosingParser ==
    /\ pc = "idle"
    /\ pc' = "ended"
    /\ parserClosed' = TRUE
    /\ error' = IF tags # <<>> /\ error = <<>>
                THEN <<[kind |-> "parse", detail |-> "unclosed tag"]>> ELSE error
    /\ reported' = IF error' # error THEN Append(reported, error') ELSE reported
    /\ UNCHANGED <<configVars, parseStack, elmToEditInfo, heap, pushed, tags, assertFailed,
                   calls, consulted, handled, chunks, events, sawRoot, unedited>>

\* The writable side is ended: no method of the transformer runs.
TransformEnd ==
    /\ pc = "idle"
    /\ pc' = "ended"
    /\ UNCHANGED <<configVars, machineVars, chunks, reported, events, sawRoot, unedited>>

EndNext == Next \/ TransformEnd

EndSpec == Init /\ [][EndNext]_vars

(***************************************************************************)
(* Documents of elements named bad and name, read with the one rule whose  *)
(* selector is "bad name".                                                 *)
(***************************************************************************)
BadNameConfigs == { [editingRules |-> << <<"bad name", "keep">> >>, validate |-> <<>>] }

BadNameTagNodes ==
    { [name |-> "bad", attributes |-> <<>>], [name |-> "name", attributes |-> <<>>] }

BadNameInit == InitWith(BadNameConfigs)

BadNameOpenTag ==
    \E node \in BadNameTagNodes :
        /\ Len(tags) < MaxDepth
        /\ tags = <<>> => ~sawRoot
        /\ Deliver(OpenTagEvent(node))
        /\ sawRoot' = TRUE

BadNameNext ==
    \/ TransformWrite
    \/ TransformReturn
    \/ BadNameOpenTag
    \/ Text
    \/ CloseTag

BadNameSpec == BadNameInit /\ [][BadNameNext]_vars

(***************************************************************************)
(* Documents of one element, <a k="value">text</a>, whose attribute value  *)
(* and text are the characters xml-escape replaces, the sequences it       *)
(* writes for them, and mixtures; read without rules and with a rule that  *)
(* returns the element as it is.                                           *)
(***************************************************************************)
EscapeTexts ==
    { "&", "<", ">", "\"", "'",
      "&amp;", "&lt;", "&gt;", "&quot;", "&apos;",
      "&amp;amp;", "a&b", "<&>", "amp;", "t" }

EscapeConfigs ==
    { [editingRules |-> <<>>, validate |-> <<>>],
      [editingRules |-> << <<"a", "keep">> >>, validate |-> <<>>] }

EscapeTagNodes == { [name |-> "a", attributes |-> << <<"k", value>> >>] : value \in EscapeTexts }

EscapeInit == InitWith(EscapeConfigs)

\* The open tag of the one element of the document.
EscapeOpenTag ==
    \E node \in EscapeTagNodes :
        /\ ~sawRoot
        /\ Deliver(OpenTagEvent(node))
        /\ sawRoot' = TRUE

EscapeText ==
    \E text \in EscapeTexts :
        /\ tags # <<>>
        /\ events[Len(events)].type # "text"
        /\ Deliver(TextEvent(text))
        /\ UNCHANGED sawRoot

EscapeNext ==
    \/ TransformWrite
    \/ TransformReturn
    \/ EscapeOpenTag
    \/ EscapeText
    \/ CloseTag

EscapeSpec == EscapeInit /\ [][EscapeNext]_vars

(***************************************************************************)
(* The README's sample document, simpsons.xml, read with the rules of the  *)
(* README's Notes example, in one or more chunks.                          *)
(***************************************************************************)
\* A character element of the sample document: open tag, text, close tag.
CharacterEvents(attributes, text) ==
    << OpenTagEvent([name |-> "character", attributes |-> attributes]),
       TextEvent(text),
       CloseTagEvent("character") >>

\* The events of simpsons.xml, line breaks and indentation included.
ReadmeDocument ==
    << XmlDeclEvent([version |-> <<"1.0">>, encoding |-> <<"UTF-8">>, standalone |-> <<>>]),
       TextEvent("\n"),
       OpenTagEvent([name |-> "simpsons",
                     attributes |-> << <<"decade", "90s">>, <<"locale", "US">> >>]),
       TextEvent("\n    "),
       OpenTagEvent([name |-> "main", attributes |-> <<>>]),
       TextEvent("\n        ") >>
    \o CharacterEvents(<< <<"sex", "female">> >>, "Marge Simpson")
    \o << TextEvent("\n        ") >>
    \o CharacterEvents(<< <<"sex", "male">> >>, "Homer Simpson")
    \o << TextEvent("\n        ") >>
    \o CharacterEvents(<< <<"sex", "female">> >>, "Lisa Simpson")
    \o << TextEvent("\n        ") >>
    \o CharacterEvents(<< <<"sex", "male">> >>, "Bart Simpson")
    \o << TextEvent("\n    "),
          CloseTagEvent("main"),
          TextEvent("\n    "),
          OpenTagEvent([name |-> "side", attributes |-> <<>>]),
          TextEvent("\n        ") >>
    \o CharacterEvents(<< <<"sex", "male">> >>, "Disco Stu")
    \o << TextEvent("\n        ") >>
    \o CharacterEvents(<< <<"sex", "male">>, <<"title", "Dr.">> >>, "Julius Hibbert")
    \o << TextEvent("\n    "),
          CloseTagEvent("side"),
          TextEvent("\n"),
          CloseTagEvent("simpsons") >>

\* The rules of the Notes example, and the same two rules declared in the
\* other order.
ReadmeConfigs ==
    { [editingRules |-> << <<"main character", "keep">>, <<"character", "keep">> >>,
       validate |-> <<>>],
      [editingRules |-> << <<"character", "keep">>, <<"main character", "keep">> >>,
       validate |-> <<>>] }

ReadmeInit == InitWith(ReadmeConfigs)

\* The parser delivers the next event of the sample document.
ReadmeDeliver ==
    /\ Len(events) < Len(ReadmeDocument)
    /\ DeliverUpTo(ReadmeDocument[Len(events) + 1], Len(ReadmeDocument))
    /\ sawRoot' = (sawRoot \/ ReadmeDocument[Len(events) + 1].type = "opentag")

ReadmeNext ==
    \/ TransformWrite
    \/ TransformReturn
    \/ ReadmeDeliver

ReadmeSpec == ReadmeInit /\ [][ReadmeNext]_vars

(***************************************************************************)
(* The document, read off the events delivered: what the claims say about  *)
(* elements, paths and regions is stated over these, independently of the  *)
(* transformer's own stack and path strings.                               *)
(***************************************************************************)
\* The indices of the open-tag events whose element is still open after
\* the first n events, outermost first.
RECURSIVE OpenAfter(_, _)
OpenAfter(evs, n) ==
    IF n = 0 THEN <<>>
    ELSE LET before == OpenAfter(evs, n - 1)
         IN  CASE evs[n].type = "opentag" -> Append(before, n)
               [] evs[n].type = "closetag" -> SubSeq(before, 1, Len(before) - 1)
               [] OTHER -> before

\* The element names from the document root to the element opened by
\* event i.
PathOf(evs, i) ==
    LET open == OpenAfter(evs, i)
    IN  [k \in 1..Len(open) |-> evs[open[k]].node.name]

\* The open-tag event of the element that the close-tag event j closes.
OpenOf(evs, j) == LET open == OpenAfter(evs, j - 1) IN open[Len(open)]

\* The proper ancestors of the element opened by event i.
AncestorsOf(evs, i) ==
    LET open == OpenAfter(evs, i - 1) IN {open[k] : k \in 1..Len(open)}

\* The number of the element opened by event i, counting open tags.
ElementNo(evs, i) == Cardinality({k \in 1..i : evs[k].type = "opentag"})

\* The names of a selector written with single spaces.
Segments(selector) == SplitOnSpace(selector)

\* The last Len(segments) names of path are the segments, in order.
SegMatch(path, segments) ==
    /\ Len(segments) <= Len(path)
    /\ \A k \in 1..Len(segments) :
          path[Len(path) - Len(segments) + k] = segments[k]

\* The rules, by position in the caller's object, that match the element
\* opened by event i.
MatchedBy(evs, i) ==
    {r \in 1..Len(editingRules) : SegMatch(PathOf(evs, i), Segments(editingRules[r][1]))}

IsMatched(evs, i) == MatchedBy(evs, i) # {}

\* Matched, and no proper ancestor is.
IsRegionRoot(evs, i) ==
    /\ IsMatched(evs, i)
    /\ \A k \in AncestorsOf(evs, i) : ~IsMatched(evs, k)

\* A rule, by position in the caller's object, matches the element that
\* has the names of path from the document root.
PathMatched(path) ==
    \E r \in 1..Len(editingRules) : SegMatch(path, Segments(editingRules[r][1]))

\* One pass over the first n events: the names of the elements open after
\* them, the depth of the outermost matched element among these (0 if
\* there is none), and for each event whether it is an open, text or close
\* event of a matched element or of one of its descendants.
RECURSIVE Scan(_, _)
Scan(evs, n) ==
    IF n = 0 THEN [path |-> <<>>, root |-> 0, inside |-> <<>>]
    ELSE LET s == Scan(evs, n - 1)
             ev == evs[n]
         IN  CASE ev.type = "opentag" ->
                    LET p == Append(s.path, ev.node.name)
                        r == IF s.root # 0 THEN s.root
                             ELSE IF PathMatched(p) THEN Len(p) ELSE 0
                    IN  [path |-> p, root |-> r, inside |-> Append(s.inside, r # 0)]
               [] ev.type = "closetag" ->
                    [path |-> SubSeq(s.path, 1, Len(s.path) - 1),
                     root |-> IF s.root = Len(s.path) THEN 0 ELSE s.root,
                     inside |-> Append(s.inside, s.root # 0)]
               [] ev.type = "text" ->
                    [s EXCEPT !.inside = Append(@, s.root # 0)]
               [] OTHER -> [s EXCEPT !.inside = Append(@, FALSE)]

Indices(evs) == [n \in 1..Len(evs) |-> n]

\* The events that are in no region.
OutsideRegions(evs) ==
    LET inside == Scan(evs, Len(evs)).inside
        keep == SelectSeq(Indices(evs), LAMBDA n : ~inside[n])
    IN  [k \in 1..Len(keep) |-> evs[keep[k]]]

\* What is pushed for one event when nothing is buffered.
ItemOf(ev) ==
    CASE ev.type = "opentag" -> <<toOpenTag(ev.node.name, ev.node.attributes)>>
      [] ev.type = "text" -> <<toBodyText(ev.text)>>
      [] ev.type = "closetag" -> <<toCloseTag(ev.node.name)>>
      [] ev.type = "xmldecl" -> OnXmlDecl(NewMachine, ev.decl).pushed
      [] OTHER -> <<>>

RECURSIVE ItemsOf(_)
ItemsOf(evs) ==
    IF evs = <<>> THEN <<>> ELSE ItemOf(Head(evs)) \o ItemsOf(Tail(evs))

\* The run of a transformer without rules on the same events.
EmptyRun(evs) == Replay(<<>>, options, evs)

\* The state is the one the handlers produce from the events delivered,
\* and so is that of the transformer without rules.
MachineIsReplay ==
    /\ Machine = Replay(rules, options, events)
    /\ unedited = EmptyRun(events)

(***************************************************************************)
(* C1: in an error-free run the edit functions are called exactly for the  *)
(* elements that a rule matches and that have no matched proper ancestor,  *)
(* once each, in the step that handles the element's close tag.            *)
(***************************************************************************)
\* <<element number, closing event>> of every region root closed so far.
ExpectedCallSites(evs) ==
    LET closes == SelectSeq(Indices(evs),
                     LAMBDA j : evs[j].type = "closetag" /\ IsRegionRoot(evs, OpenOf(evs, j)))
    IN  [k \in 1..Len(closes) |-> <<ElementNo(evs, OpenOf(evs, closes[k])), closes[k]>>]

CallSites == [k \in 1..Len(calls) |-> <<calls[k].element, calls[k].at>>]

C1_CallbackIffRegionRoot ==
    error = <<>> => CallSites = ExpectedCallSites(events)

\* Two rules that do not overlap have both been applied, to siblings.
C1_Witness ==
    /\ error = <<>>
    /\ Len(calls) = 2
    /\ calls[1].selector # calls[2].selector
    /\ Len(parseStack) = 1

(***************************************************************************)
(* C2: without rules the output is one item per event, in event order:     *)
(* the open tag with its attributes, the escaped text, the close tag; no   *)
(* edit function is called.                                                *)
(***************************************************************************)
C2_EmptyRulesIdentity ==
    rules = <<>> => /\ pushed = ItemsOf(events)
                    /\ calls = <<>>
                    /\ elmToEditInfo = <<>>

\* An element with attributes, a text to escape and a close tag went by.
C2_Witness ==
    /\ rules = <<>>
    /\ \E i \in 1..Len(events) :
          events[i].type = "opentag" /\ events[i].node.attributes # <<>>
    /\ \E i \in 1..Len(events) : events[i].type = "text" /\ events[i].text = "<&"
    /\ \E i \in 1..Len(events) : events[i].type = "closetag"

(***************************************************************************)
(* C3: when no element of the document is matched by a rule, the run       *)
(* pushes what the run without rules pushes on the same events, step for   *)
(* step, never buffers and calls no edit function.                         *)
(***************************************************************************)
NothingMatched(evs) ==
    LET inside == Scan(evs, Len(evs)).inside
    IN  \A i \in 1..Len(evs) : ~inside[i]

C3_NoMatchIsIdentity ==
    NothingMatched(events) => /\ pushed = unedited.pushed
                              /\ elmToEditInfo = <<>>
                              /\ calls = <<>>

\* Rules were given, and the document has an element whose name ends in a
\* rule's last segment, and nothing matched.
C3_Witness ==
    /\ rules # <<>>
    /\ NothingMatched(events)
    /\ \E i \in 1..Len(events) : events[i].type = "opentag" /\ events[i].node.name = "xb"
    /\ \E i \in 1..Len(events) : events[i].type = "closetag"
    /\ \E i \in 1..Len(events) : events[i].type = "text"
(***************************************************************************)
(* C4: when the edit function returns a node that passes validation (or    *)
(* validation is off), the step that handles the root's close tag pushes   *)
(* exactly the node's serialization (open tag with attributes, text if     *)
(* present, children in order, close tag), after all that earlier events   *)
(* pushed and before all that later events push; the region pushed         *)
(* nothing before.                                                         *)
(***************************************************************************)
RECURSIVE SerializationOf(_)
RECURSIVE SerializationOfAll(_)
SerializationOfAll(children) ==
    IF children = <<>> THEN ""
    ELSE SerializationOf(Head(children)) \o SerializationOfAll(Tail(children))

SerializationOf(element) ==
    "<" \o element.name \o AttrsMarkup(element.attributes) \o ">"
    \o (IF element.text # <<>> THEN xmlescape(element.text[1]) ELSE "")
    \o SerializationOfAll(element.children)
    \o "</" \o element.name \o ">"

\* What the transformer has pushed once the first n events are handled.
PushedAfter(n) == Replay(rules, options, SubSeq(events, 1, n)).pushed

Committed(call) ==
    /\ call.outcome.kind = "node"
    /\ options.validate => ElementValidate(call.outcome.node[1]) = <<>>

C4_ReturnedNodeIsWritten ==
    \A k \in 1..Len(calls) :
        Committed(calls[k]) =>
            LET j == calls[k].at
                before == PushedAfter(j - 1)
                after == PushedAfter(j)
            IN  /\ PushedAfter(OpenOf(events, j) - 1) = before
                /\ Len(before) <= Len(after)
                /\ SubSeq(after, 1, Len(before)) = before
                /\ JoinAll(SubSeq(after, Len(before) + 1, Len(after)))
                      = SerializationOf(calls[k].outcome.node[1])
                /\ Len(after) <= Len(pushed)
                /\ SubSeq(pushed, 1, Len(after)) = after

\* A returned node with attributes, a text and a child added by the edit
\* function was written between the output of an earlier and a later event.
C4_Witness ==
    \E k \in 1..Len(calls) :
        /\ Committed(calls[k])
        /\ calls[k].outcome.node[1].attributes # <<>>
        /\ calls[k].outcome.node[1].text # <<>>
        /\ Len(calls[k].outcome.node[1].children) > Len(calls[k].arg.children)
        /\ calls[k].pushedBefore > 0
        /\ Len(pushed) > Len(PushedAfter(calls[k].at))

(***************************************************************************)
(* C5: when the edit functions return nothing, nothing is pushed for the   *)
(* matched elements and their descendants and the region is cleared: the   *)
(* output is that of the run without rules on the document without those   *)
(* subtrees.                                                               *)
(***************************************************************************)
AllRemoved == \A k \in 1..Len(calls) : calls[k].outcome.kind = "undefined"

\* Some element still open is matched by a rule.
InsideMatched == Scan(events, Len(events)).root # 0

C5_RemovedSubtreeIsAbsent ==
    calls # <<>> /\ AllRemoved =>
        /\ Len(pushed) = calls[Len(calls)].pushedBefore
              \/ calls[Len(calls)].at < Len(events)
        /\ pushed = EmptyRun(OutsideRegions(events)).pushed
        /\ elmToEditInfo # <<>> <=> InsideMatched

\* An element was removed, with output before it and after it.
C5_Witness ==
    /\ AllRemoved
    /\ Len(calls) >= 1
    /\ calls[1].pushedBefore > 0
    /\ Len(pushed) > calls[1].pushedBefore
    /\ elmToEditInfo = <<>>

(***************************************************************************)
(* C6: while a region is active, every step but the one that handles the   *)
(* close tag of its root leaves the region as it is, does not consult the  *)
(* matcher and calls no edit function; that step calls the region's edit   *)
(* function, for the root.                                                 *)
(***************************************************************************)
\* This step handles the close tag of the active region's root.
ClosesRoot ==
    /\ events' # events
    /\ events'[Len(events')].type = "closetag"
    /\ parseStack # <<>>
    /\ parseStack[Len(parseStack)].element = elmToEditInfo[1].element

C6_OneRegionAtATime ==
    [][elmToEditInfo # <<>> =>
          IF ClosesRoot
          THEN /\ Len(calls') = Len(calls) + 1
               /\ calls'[Len(calls')].element = elmToEditInfo[1].element
               /\ calls'[Len(calls')].func = elmToEditInfo[1].func
               /\ consulted' = consulted
          ELSE /\ elmToEditInfo' = elmToEditInfo
               /\ consulted' = consulted
               /\ calls' = calls]_vars

\* Inside an active region an element has just been opened that a rule
\* matches.
C6_Witness ==
    /\ elmToEditInfo # <<>>
    /\ Len(parseStack) >= 2
    /\ parseStack[Len(parseStack)].element # elmToEditInfo[1].element
    /\ events[Len(events)].type = "opentag"
    /\ MatchingRules(Machine, rules) # {}

(***************************************************************************)
(* C7: the edit function called for an element is the one of the first     *)
(* rule, in the caller's declaration order, that matches it, and no other  *)
(* edit function is called for that element.                               *)
(***************************************************************************)
\* The open-tag event of element number e.
OpenEventOf(evs, e) ==
    CHOOSE i \in 1..Len(evs) : evs[i].type = "opentag" /\ ElementNo(evs, i) = e

Least(S) == CHOOSE r \in S : \A q \in S : r <= q

C7_FirstDeclaredRuleWins ==
    \A k \in 1..Len(calls) :
        LET m == MatchedBy(events, OpenEventOf(events, calls[k].element))
        IN  /\ m # {}
            /\ calls[k].func = editingRules[Least(m)][2]
            /\ calls[k].selector = rules[Least(m)].selector.text
            /\ \A q \in 1..Len(calls) : calls[q].element = calls[k].element => q = k

\* An edit function was called for an element that two rules match.
C7_Witness ==
    \E k \in 1..Len(calls) :
        Cardinality(MatchedBy(events, OpenEventOf(events, calls[k].element))) >= 2

(***************************************************************************)
(* C8: a rule with segments s1..sn matches a just-opened element exactly   *)
(* when the element's path from the root has at least n names and its      *)
(* last n names are s1..sn.  Checked for every selector of one to three    *)
(* of the documents' names against every path the documents reach.         *)
(***************************************************************************)
SelectorNames == {"a", "b", "xb"}

SampleSelectors ==
    SelectorNames
    \cup {n1 \o " " \o n2 : n1 \in SelectorNames, n2 \in SelectorNames}
    \cup {n1 \o " " \o n2 \o " " \o n3 :
            n1 \in SelectorNames, n2 \in SelectorNames, n3 \in SelectorNames}

SampleRules ==
    {[segments |-> Segments(s), rule |-> SelectorRule(s)] : s \in SampleSelectors}

JustOpened == events # <<>> /\ events[Len(events)].type = "opentag"

C8_MatchIsPathSuffix ==
    JustOpened =>
        LET names == PathOf(events, Len(events))
            path == parseStack[Len(parseStack)].path
        IN  \A sr \in SampleRules :
                matches(path, sr.rule) <=> SegMatch(names, sr.segments)

\* A b below an xb below an a: "b" and "xb b" match it, "a b" does not.
C8_Witness ==
    /\ JustOpened
    /\ PathOf(events, Len(events)) = <<"a", "xb", "b">>
    /\ matches(parseStack[Len(parseStack)].path, SelectorRule("xb b"))
    /\ matches(parseStack[Len(parseStack)].path, SelectorRule("b"))
    /\ ~matches(parseStack[Len(parseStack)].path, SelectorRule("a b"))

(***************************************************************************)
(* C9: matching compares whole names: a selector one of whose segments is  *)
(* only a part of the name at its place in the path (as "b" or "x" is of   *)
(* "xb") does not match, whatever the other segments are.                  *)
(***************************************************************************)
\* part occurs in whole.
IsPartOf(part, whole) ==
    \E i \in 1..(Len(whole) - Len(part) + 1) :
        SubSeq(whole, i, i + Len(part) - 1) = part

\* Every segment is a part of the name at its place, and one is not the
\* whole name.
NearMiss(path, segments) ==
    /\ Len(segments) <= Len(path)
    /\ \A k \in 1..Len(segments) :
          IsPartOf(segments[k], path[Len(path) - Len(segments) + k])
    /\ \E k \in 1..Len(segments) :
          path[Len(path) - Len(segments) + k] # segments[k]

\* Selectors of one or two names, among them parts of the documents' names.
PartNames == {"a", "b", "xb", "x"}

PartSelectors ==
    PartNames \cup {n1 \o " " \o n2 : n1 \in PartNames, n2 \in PartNames}

PartRules ==
    {[segments |-> Segments(s), rule |-> SelectorRule(s)] : s \in PartSelectors}

C9_WholeNamesOnly ==
    JustOpened =>
        LET names == PathOf(events, Len(events))
            path == parseStack[Len(parseStack)].path
        IN  \A sr \in PartRules :
                NearMiss(names, sr.segments) => ~matches(path, sr.rule)

\* An xb has just been opened below an xb: "b", "x", "x xb" and "xb b" are
\* near misses.
C9_Witness ==
    /\ JustOpened
    /\ PathOf(events, Len(events)) = <<"xb", "xb">>
    /\ NearMiss(PathOf(events, Len(events)), <<"b">>)
    /\ NearMiss(PathOf(events, Len(events)), <<"x", "xb">>)
    /\ NearMiss(PathOf(events, Len(events)), <<"xb", "b">>)

(***************************************************************************)
(* C10: when an edit function throws, nothing is pushed for the region,    *)
(* the parser is closed, and what _transform reports for that chunk and    *)
(* for every later chunk is the value thrown.                              *)
(***************************************************************************)
LastCallThrew == calls # <<>> /\ calls[Len(calls)].outcome.kind = "throw"

C10_ThrownValueIsReported ==
    LastCallThrew =>
        /\ Len(pushed) = calls[Len(calls)].pushedBefore
        /\ parserClosed
        /\ pc = "idle" => reported[Len(reported)] = calls[Len(calls)].outcome.error

(***************************************************************************)
(* C11: once the close tag of a region's root has been handled the region  *)
(* is cleared, whatever the edit function did; so an active region's root  *)
(* is always the element of an entry of the parse stack.                   *)
(***************************************************************************)
RegionRootIsStacked ==
    \E k \in 1..Len(parseStack) : parseStack[k].element = elmToEditInfo[1].element

C11_RegionClearedAfterRootClose ==
    elmToEditInfo # <<>> => parseStack # <<>> /\ RegionRootIsStacked

(***************************************************************************)
(* C12: with validation on, when the node the edit function returned has   *)
(* an invalid element or attribute name anywhere in its subtree, nothing   *)
(* of it is pushed, the parser is closed, the validation error is the      *)
(* error recorded, and it is what _transform reports for the chunk.        *)
(***************************************************************************)
\* The last call returned a node that validation rejects.
LastCallInvalid ==
    /\ calls # <<>>
    /\ calls[Len(calls)].outcome.kind = "node"
    /\ options.validate
    /\ ElementValidate(calls[Len(calls)].outcome.node[1]) # <<>>

C12_InvalidNodeIsRejected ==
    LastCallInvalid =>
        /\ Len(pushed) = calls[Len(calls)].pushedBefore
        /\ parserClosed
        /\ error = ElementValidate(calls[Len(calls)].outcome.node[1])
        /\ pc = "idle" =>
              reported[Len(reported)] = ElementValidate(calls[Len(calls)].outcome.node[1])

(***************************************************************************)
(* C13: with an error recorded, a call of _transform reports that error    *)
(* through its completion callback, the one the call before reported, and  *)
(* does nothing else: the chunk is not written to the parser, nothing is   *)
(* pushed, and the parse stack, the region and the error stay as they are. *)
(***************************************************************************)
\* This step is the start of a call of _transform.
TransformCalled == chunks' # chunks

C13_RecordedErrorRejectsChunks ==
    [][pc = "idle" /\ error # <<>> /\ TransformCalled =>
          /\ reported' = Append(reported, error)
          /\ reported # <<>> => reported[Len(reported)] = error
          /\ pc' = "idle"
          /\ events' = events
          /\ pushed' = pushed
          /\ parseStack' = parseStack
          /\ elmToEditInfo' = elmToEditInfo
          /\ error' = error
          /\ UNCHANGED machineVars]_vars

\* A chunk was rejected with the error of the chunk before, a parse error
\* that left the parser open inside an element.
C13_Witness ==
    /\ pc = "idle"
    /\ Len(reported) >= 2
    /\ reported[1] # <<>>
    /\ reported[2] = reported[1]
    /\ ~parserClosed
    /\ parseStack # <<>>

(***************************************************************************)
(* C14, as claimed: from the moment an error of any kind is recorded the   *)
(* parser is closed and no step pushes anything more.                      *)
(***************************************************************************)
C14_AnyErrorStopsOutput ==
    [][error # <<>> => parserClosed /\ pushed' = pushed]_vars

(***************************************************************************)
(* C14, amended: from the moment an edit function has thrown or a returned *)
(* node has failed validation the parser is closed and no step pushes      *)
(* anything more; after a parse error the parser stays open and the rest   *)
(* of the chunk is still handled, and no step pushes anything more once    *)
(* the _transform call of that chunk has completed.                        *)
(***************************************************************************)
C14_CallbackErrorStopsOutput ==
    [][/\ (LastCallThrew \/ LastCallInvalid) => (parserClosed /\ pushed' = pushed)
       /\ (error # <<>> /\ pc = "idle") => pushed' = pushed
       /\ (error # <<>> /\ ~LastCallThrew /\ ~LastCallInvalid) => ~parserClosed]_vars

\* An edit function threw after output had been pushed, the parser is
\* closed and a later chunk was rejected.
C14_Witness ==
    /\ LastCallThrew
    /\ parserClosed
    /\ pushed # <<>>
    /\ Len(reported) >= 2
    /\ pc = "idle"

(***************************************************************************)
(* C15: a parse error only records the error.  The step that handles it    *)
(* changes nothing else and leaves the parser open; every later event of   *)
(* the chunk is handled as it would be with no error recorded; a chunk is  *)
(* not written to the parser once its _transform call has completed.       *)
(***************************************************************************)
\* This step handles an event.
Handles == events' # events

HasParseError == \E i \in 1..Len(events) : events[i].type = "error"

\* What the parser reported.
TheParseError == events[CHOOSE i \in 1..Len(events) : events[i].type = "error"].err

\* The step that handles a parse error records it and does nothing else.
RecordsOnly ==
    Handles /\ events'[Len(events')].type = "error" =>
        /\ error' = <<events'[Len(events')].err>>
        /\ ~parserClosed'
        /\ pushed' = pushed
        /\ parseStack' = parseStack
        /\ elmToEditInfo' = elmToEditInfo
        /\ heap' = heap
        /\ calls' = calls

\* An event after the parse error is handled as from the same state with
\* no error recorded.
HandledAsWithoutError ==
    Handles /\ error # <<>> /\ HasParseError =>
        LET clean == Dispatch([Machine EXCEPT !.error = <<>>], rules, options,
                              events'[Len(events')])
        IN  /\ pushed' = clean.pushed
            /\ parseStack' = clean.parseStack
            /\ elmToEditInfo' = clean.elmToEditInfo
            /\ heap' = clean.heap
            /\ calls' = clean.calls
            /\ parserClosed' = clean.parserClosed

\* Later chunks are rejected.
LaterChunksRejected ==
    pc = "idle" /\ HasParseError => events' = events /\ pc' = "idle"

\* This step is the completion of the _transform call that wrote a chunk.
Completes == pc = "write" /\ pc' = "idle"

(* C15, as claimed: and the parse error is what that chunk's _transform    *)
(* reports.                                                                *)
C15_ParseErrorIsReported ==
    [][/\ RecordsOnly
       /\ HandledAsWithoutError
       /\ LaterChunksRejected
       /\ Completes /\ HasParseError => reported' = Append(reported, <<TheParseError>>)]_vars

(* C15, amended: and that chunk's _transform reports an error: the parse   *)
(* error, unless an edit function threw or a returned node failed          *)
(* validation later in the chunk, which replaces the error recorded.       *)
C15_ParseErrorOnlyRecords ==
    [][/\ RecordsOnly
       /\ HandledAsWithoutError
       /\ LaterChunksRejected
       /\ Completes /\ HasParseError =>
             /\ error # <<>>
             /\ reported' = Append(reported, error)
             /\ ~(LastCallThrew \/ LastCallInvalid) => error = <<TheParseError>>]_vars

\* After a parse error the same chunk pushed output and called an edit
\* function, reported the parse error, and the next chunk was rejected.
C15_Witness ==
    /\ HasParseError
    /\ \E i \in 1..Len(events) :
          /\ events[i].type = "error"
          /\ \E k \in 1..Len(calls) :
                /\ calls[k].at > i
                /\ Len(pushed) > calls[k].pushedBefore
    /\ pc = "idle"
    /\ Len(reported) >= 2
    /\ reported[1] = <<TheParseError>>
    /\ reported[2] = reported[1]

(***************************************************************************)
(* C16: the output is append-only: every step, the ones that record an     *)
(* error among them, leaves what was pushed before in place; a report to   *)
(* the completion callback pushes and removes nothing, and once an error   *)
(* has been reported nothing is pushed any more, so that the error comes   *)
(* after all the output.                                                   *)
(***************************************************************************)
ErrorWasReported == reported # <<>> /\ reported[Len(reported)] # <<>>

C16_OutputIsAppendOnly ==
    [][/\ Len(pushed) <= Len(pushed')
       /\ SubSeq(pushed', 1, Len(pushed)) = pushed
       /\ reported' # reported => pushed' = pushed
       /\ ErrorWasReported => pushed' = pushed]_vars

\* Unmatched tags and a committed region were pushed, then an error was
\* recorded and reported, and the next chunk was rejected.
C16_Witness ==
    /\ ErrorWasReported
    /\ pc = "idle"
    /\ Len(reported) >= 2
    /\ \E k \in 1..Len(calls) :
          /\ Committed(calls[k])
          /\ calls[k].pushedBefore > 0
          /\ Len(pushed) > calls[k].pushedBefore

(***************************************************************************)
(* C17: when a selector of the editing rules has a token that is not a     *)
(* valid name, createXMLEditor throws: there is no transformer, no parser  *)
(* and nothing is ever processed; the error names the selector as written  *)
(* and one of its pieces that is not a name.  When it does not throw, no   *)
(* selector error is ever recorded or reported.  The arguments and what    *)
(* createXMLEditor threw are looked at in the state it leaves.             *)
(***************************************************************************)
\* The names of a selector, split at white space, that are not valid.
InvalidTokens(selector) ==
    SelectSeq(SplitOnSpace(CollapseSpaces(Trim(selector))), LAMBDA t : ~xnvName(t))

HasInvalidToken ==
    \E i \in 1..Len(editingRules) : InvalidTokens(editingRules[i][1]) # <<>>

NothingProcessed ==
    /\ pc = "threw"
    /\ rules = <<>>
    /\ Machine = NewMachine
    /\ events = <<>>
    /\ chunks = 0
    /\ reported = <<>>

\* The state right after createXMLEditor returned or threw.
JustConstructed == chunks = 0

C17_InvalidSelectorThrowsAtConstruction ==
    /\ JustConstructed =>
          /\ HasInvalidToken => thrown # <<>>
          /\ thrown # <<>> =>
                /\ \E i \in 1..Len(editingRules) : thrown[1].selector = editingRules[i][1]
                /\ \E k \in 1..Len(SplitOnSpace(thrown[1].selector)) :
                      thrown[1].name = SplitOnSpace(thrown[1].selector)[k]
                /\ ~xnvName(thrown[1].name)
    /\ thrown # <<>> => NothingProcessed
    /\ thrown = <<>> =>
          /\ pc # "threw"
          /\ error # <<>> => error[1].kind # "selector"
          /\ \A n \in 1..Len(reported) :
                reported[n] # <<>> => reported[n][1].kind # "selector"

\* The second rule's selector "a 1b" made createXMLEditor throw an error
\* that names "1b".
C17_Witness ==
    /\ thrown # <<>>
    /\ thrown[1].selector = "a 1b"
    /\ thrown[1].name = "1b"
    /\ Len(editingRules) = 2
    /\ pc = "threw"

(***************************************************************************)
(* C18, as claimed: a selector is trimmed and its runs of spaces collapsed *)
(* before it is split and validated, so that a selector whose names are    *)
(* all valid is accepted however it is spaced, with the key of its         *)
(* single-spaced form.                                                     *)
(***************************************************************************)
SingleSpaced(selector) == CollapseSpaces(Trim(selector))

\* The key of a sequence of names: each name after the separator.
KeyOf(names) == JoinAll([k \in 1..Len(names) |-> pathSeparator \o names[k]])

C18_SpacingIsNormalised ==
    chunks = 0 /\ (\A i \in 1..Len(editingRules) : InvalidTokens(editingRules[i][1]) = <<>>) =>
        /\ thrown = <<>>
        /\ \A i \in 1..Len(editingRules) :
              rules[i].selector = SelectorRule(SingleSpaced(editingRules[i][1]))

(***************************************************************************)
(* C18, amended: a selector is validated as written, split at every        *)
(* single space: one with a space at either end or with two spaces in a    *)
(* row has an empty piece and makes createXMLEditor throw (the error names *)
(* the empty piece when the names themselves are valid).  A selector that  *)
(* is accepted is single-spaced, and its key is that of its names.         *)
(***************************************************************************)
C18_SpacingIsRejected ==
    JustConstructed =>
        /\ (\E i \in 1..Len(editingRules) :
               editingRules[i][1] # SingleSpaced(editingRules[i][1])) => thrown # <<>>
        /\ thrown # <<>> /\ InvalidTokens(thrown[1].selector) = <<>> =>
              /\ thrown[1].name = ""
              /\ thrown[1].selector # SingleSpaced(thrown[1].selector)
        /\ thrown = <<>> =>
              \A i \in 1..Len(editingRules) :
                  /\ editingRules[i][1] = SingleSpaced(editingRules[i][1])
                  /\ rules[i].selector.text = KeyOf(SplitOnSpace(editingRules[i][1]))

\* The selector " a   b " made createXMLEditor throw an error that names
\* the empty piece.
C18_Witness ==
    /\ thrown # <<>>
    /\ thrown[1].selector = " a   b "
    /\ thrown[1].name = ""
    /\ SplitOnSpace(SingleSpaced(thrown[1].selector)) = <<"a", "b">>
    /\ pc = "threw"

(***************************************************************************)
(* C19: the node an edit function is called with mirrors the events from   *)
(* the open tag of the region's root to its close tag: it has the root's   *)
(* name and attributes and one child for every element opened directly     *)
(* inside it, in document order, each child mirroring its own events in    *)
(* the same way.                                                           *)
(***************************************************************************)
\* The open-tag event of the parent of the element opened by event j, or 0.
ParentOf(evs, j) ==
    LET open == OpenAfter(evs, j - 1)
    IN  IF open = <<>> THEN 0 ELSE open[Len(open)]

\* The open-tag events of the children of the element opened by event i,
\* in document order.
ChildOpens(evs, i) ==
    SelectSeq(Indices(evs),
              LAMBDA j : j > i /\ evs[j].type = "opentag" /\ ParentOf(evs, j) = i)

\* The element opened by event i as the events describe it.
RECURSIVE TreeAt(_, _)
TreeAt(evs, i) ==
    LET below == ChildOpens(evs, i)
    IN  [name |-> evs[i].node.name,
         attributes |-> evs[i].node.attributes,
         children |-> [k \in 1..Len(below) |-> TreeAt(evs, below[k])]]

\* The names, attributes and children of an element and its descendants.
RECURSIVE ShapeOf(_)
ShapeOf(element) ==
    [name |-> element.name,
     attributes |-> element.attributes,
     children |-> [k \in 1..Len(element.children) |-> ShapeOf(element.children[k])]]

\* The step that handled the last event called an edit function.
JustCalled == calls # <<>> /\ calls[Len(calls)].at = Len(events)

C19_ArgumentMirrorsEvents ==
    JustCalled =>
        ShapeOf(calls[Len(calls)].arg) = TreeAt(events, OpenOf(events, Len(events)))

\* An edit function was called with a node that has two children of
\* different names, the first of them with attributes.
C19_Witness ==
    /\ JustCalled
    /\ Len(calls[Len(calls)].arg.children) = 2
    /\ calls[Len(calls)].arg.children[1].name # calls[Len(calls)].arg.children[2].name
    /\ calls[Len(calls)].arg.children[1].attributes # <<>>

(***************************************************************************)
(* C20: with options.validate false the node an edit function returns is   *)
(* written as it is, with no check of its names: no validation error is    *)
(* ever recorded and a returned subtree with an invalid element or         *)
(* attribute name is pushed.  With the option left out, validation is on:  *)
(* such a node is rejected.                                                *)
(***************************************************************************)
\* What the step that made the last call pushed.
PushedByLastCall ==
    JoinAll(SubSeq(pushed, calls[Len(calls)].pushedBefore + 1, Len(pushed)))

LastCallReturnedNode == calls[Len(calls)].outcome.kind = "node"

C20_ValidateOptionIsFollowed ==
    /\ validateOption = <<FALSE>> =>
          /\ ~options.validate
          /\ error # <<>> => error[1].kind # "validation"
          /\ JustCalled /\ LastCallReturnedNode =>
                /\ PushedByLastCall = SerializationOf(calls[Len(calls)].outcome.node[1])
                /\ elmToEditInfo = <<>>
                /\ ~parserClosed
    /\ validateOption = <<>> =>
          /\ options.validate
          /\ LastCallInvalid =>
                /\ Len(pushed) = calls[Len(calls)].pushedBefore
                /\ parserClosed
                /\ error # <<>>

\* With validate false an edit function returned an element with an
\* invalid name, and it was pushed.
C20_Witness ==
    /\ validateOption = <<FALSE>>
    /\ JustCalled
    /\ LastCallReturnedNode
    /\ ~xnvQname(calls[Len(calls)].outcome.node[1].name)
    /\ pushed[Len(pushed)] = toCloseTag(calls[Len(calls)].outcome.node[1].name)
    /\ error = <<>>

(***************************************************************************)
(* C21: on a declaration event one declaration is pushed, in the step that *)
(* handles the event, built from the fields the parser reported, in the    *)
(* order version, encoding, standalone: the version is the one reported    *)
(* and a field that was not reported is not written.                       *)
(***************************************************************************)
\* An attribute of the declaration, when the parser reported it.
DeclAttr(name, field) ==
    IF field # <<>> THEN " " \o name \o "=\"" \o toAttrValue(field[1]) \o "\"" ELSE ""

\* The declaration made of what the parser reported.
DeclarationOf(decl) ==
    "<?xml" \o DeclAttr("version", decl.version) \o DeclAttr("encoding", decl.encoding)
            \o DeclAttr("standalone", decl.standalone) \o "?>"

\* The declaration is the first event of a document.
DeclarationSeen == events # <<>> /\ events[1].type = "xmldecl"

C21_DeclarationIsAsObserved ==
    DeclarationSeen =>
        /\ pushed # <<>>
        /\ pushed[1] = DeclarationOf(events[1].decl)
        /\ Len(events) = 1 => Len(pushed) = 1

(***************************************************************************)
(* C22: the README's Notes example.  With the rules "main character" and   *)
(* "character" read over simpsons.xml, the edit function of "main          *)
(* character" is called for the four character elements under main and     *)
(* the one of "character" for the two under side, whichever is declared    *)
(* first: a character under side is matched by "character" only.  The      *)
(* function of "character" is never called for an element under main when  *)
(* "main character" is declared first.                                     *)
(***************************************************************************)
\* The selectors of the calls made so far, in order.
SelectorsCalled == [k \in 1..Len(calls) |-> calls[k].selector]

\* The name of the element whose child the argument of call k was.
ParentNameOfCall(k) == events[ParentOf(events, OpenOf(events, calls[k].at))].node.name

MainCharacterFirst == editingRules[1][1] = "main character"

\* The whole of simpsons.xml has been read.
ReadmeDocumentRead == Len(events) = Len(ReadmeDocument)

(* C22, as claimed: the edit function of "character" is never called.      *)
C22_CharacterRuleNeverCalled ==
    MainCharacterFirst => \A k \in 1..Len(calls) : calls[k].selector # process("character")

(* C22, amended.                                                           *)
C22_CharacterRuleCalledUnderSide ==
    /\ \A k \in 1..Len(calls) :
          /\ calls[k].arg.name = "character"
          /\ MainCharacterFirst =>
                calls[k].selector = IF ParentNameOfCall(k) = "main"
                                    THEN process("main character")
                                    ELSE process("character")
          /\ ~MainCharacterFirst => calls[k].selector = process("character")
    /\ ReadmeDocumentRead =>
          /\ Len(calls) = 6
          /\ \A k \in 1..6 : ParentNameOfCall(k) = IF k <= 4 THEN "main" ELSE "side"
          /\ calls[5].arg.text = <<"Disco Stu">>
          /\ calls[6].arg.text = <<"Julius Hibbert">>
          /\ JoinAll(pushed) = JoinAll(unedited.pushed)

\* The document has been read with "main character" declared first, and
\* the edit function of "character" was called for Disco Stu.
C22_Witness ==
    /\ MainCharacterFirst
    /\ ReadmeDocumentRead
    /\ calls[5].selector = process("character")
    /\ calls[5].arg.text = <<"Disco Stu">>
    /\ calls[4].selector = process("main character")

(***************************************************************************)
(* C23: the selector "bad name".  Split on spaces its pieces are bad and   *)
(* name, both XML names: createXMLEditor throws nothing, the rule is kept  *)
(* under the key "@bad@name", and its edit function is called for the      *)
(* name elements whose parent is a bad element, and for no other.          *)
(***************************************************************************)
BadNameGiven == \E i \in 1..Len(editingRules) : editingRules[i][1] = "bad name"

(* C23, as claimed: createXMLEditor throws an error that names a piece of  *)
(* the selector, before any input is processed.                            *)
C23_BadNameThrows ==
    BadNameGiven =>
        /\ thrown # <<>>
        /\ thrown[1].selector = "bad name"
        /\ thrown[1].name \in {"bad name", "bad", "name"}
        /\ NothingProcessed

(* C23, amended.                                                           *)
C23_BadNameIsTwoNames ==
    BadNameGiven =>
        /\ InvalidNames("bad name") = <<>>
        /\ thrown = <<>>
        /\ pc # "threw"
        /\ JustConstructed => Machine = NewMachine /\ events = <<>> /\ reported = <<>>
        /\ \E i \in 1..Len(rules) : rules[i].selector.text = "@bad@name"
        /\ \A k \in 1..Len(calls) :
              /\ calls[k].selector = "@bad@name"
              /\ calls[k].arg.name = "name"
              /\ ParentNameOfCall(k) = "bad"
        /\ error = <<>> /\ JustCalled => elmToEditInfo = <<>>

\* The editor was constructed with the selector "bad name" and its edit
\* function has been called for a name element inside a bad element.
C23_Witness ==
    /\ BadNameGiven
    /\ thrown = <<>>
    /\ JustCalled
    /\ calls[Len(calls)].arg.name = "name"
    /\ ParentNameOfCall(Len(calls)) = "bad"
    /\ pushed[Len(pushed)] = toCloseTag("name")

(***************************************************************************)
(* C24: escaping is not idempotent, and must not be.  Every &, <, >, " and *)
(* ' of a value is replaced, the & of a sequence that escaping produces    *)
(* among them ("&amp;" is written "&amp;amp;"), so that a reader that      *)
(* decodes the five entities gets the value back, whatever the value; a    *)
(* value without these characters is written unchanged.                    *)
(***************************************************************************)
StartsWith(s, prefix) == Len(prefix) <= Len(s) /\ SubSeq(s, 1, Len(prefix)) = prefix

\* What an XML reader makes of character data: the five predefined
\* entities decoded, left to right.
RECURSIVE Unescape(_)
Unescape(s) ==
    LET rest(n) == Unescape(SubSeq(s, n + 1, Len(s)))
    IN  CASE s = "" -> ""
          [] StartsWith(s, "&amp;") -> "&" \o rest(5)
          [] StartsWith(s, "&lt;") -> "<" \o rest(4)
          [] StartsWith(s, "&gt;") -> ">" \o rest(4)
          [] StartsWith(s, "&quot;") -> "\"" \o rest(6)
          [] StartsWith(s, "&apos;") -> "'" \o rest(6)
          [] OTHER -> SubSeq(s, 1, 1) \o rest(1)

HasSpecial(s) == \E i \in 1..Len(s) : SubSeq(s, i, i) \in {"&", "<", ">", "\"", "'"}

\* The attribute value and the text of the document read so far.
ValuesRead ==
    {events[i].node.attributes[1][2] : i \in {j \in 1..Len(events) : events[j].type = "opentag"}}
    \cup {events[i].text : i \in {j \in 1..Len(events) : events[j].type = "text"}}

\* The element has been read to its close tag: open tag, text, close tag.
ElementRead == Len(events) = 3 /\ events[3].type = "closetag"

\* The markup of the element read, with its values written as written(v).
ElementWritten(written(_)) ==
    "<a k=\"" \o written(events[1].node.attributes[1][2]) \o "\">"
    \o written(events[2].text) \o "</a>"

Unchanged(v) == v

(* C24, as claimed: escaping an escaped value changes nothing, and a value *)
(* made of sequences that escaping produces is written unchanged.          *)
C24_EscapingIsIdempotent ==
    /\ \A v \in ValuesRead :
          /\ xmlescape(xmlescape(v)) = xmlescape(v)
          /\ (\E u \in EscapeTexts : v = xmlescape(u)) => xmlescape(v) = v
    /\ ElementRead /\ (\A v \in ValuesRead : \E u \in EscapeTexts : v = xmlescape(u)) =>
          JoinAll(pushed) = ElementWritten(Unchanged)

(* C24, amended.                                                           *)
C24_EscapingRoundTrips ==
    /\ \A v \in ValuesRead :
          /\ Unescape(xmlescape(v)) = v
          /\ HasSpecial(v) =>
                /\ xmlescape(v) # v
                /\ xmlescape(xmlescape(v)) # xmlescape(v)
          /\ ~HasSpecial(v) => xmlescape(v) = v
          /\ v = "&amp;" => xmlescape(v) = "&amp;amp;"
    /\ ElementRead =>
          /\ JoinAll(pushed) = ElementWritten(xmlescape)
          /\ Unescape(pushed[Len(pushed) - 1]) = events[2].text

\* The element <a k="&lt;">&amp;</a>, whose values are sequences that
\* escaping produces, has been read by a rule that returns it as it is, and
\* written with each & escaped again.
C24_Witness ==
    /\ ElementRead
    /\ calls # <<>>
    /\ events[1].node.attributes[1][2] = "&lt;"
    /\ events[2].text = "&amp;"
    /\ JoinAll(pushed) = "<a k=\"&amp;lt;\">&amp;amp;</a>"

(***************************************************************************)
(* C25: from the open tag of a region's root to the step that handles the  *)
(* root's close tag nothing is pushed: the root's open tag, the text       *)
(* events and the open and close tags of the descendants push nothing.     *)
(* What the region adds to the output is pushed by the step that handles   *)
(* the root's close tag, which calls the edit function, after what was     *)
(* pushed before the root was opened.                                      *)
(***************************************************************************)
\* The step handles an event of a region and the region is still open
\* after it.
StaysInRegion ==
    /\ Handles
    /\ LET s == Scan(events', Len(events'))
       IN  s.inside[Len(events')] /\ s.root # 0

\* The step handles the close tag of a region's root.
ClosesRegion ==
    /\ Handles
    /\ LET s == Scan(events', Len(events'))
       IN  s.inside[Len(events')] /\ s.root = 0

C25_RegionIsSilentUntilRootClose ==
    [][/\ StaysInRegion => pushed' = pushed /\ calls' = calls
       /\ ClosesRegion =>
             /\ Len(calls') = Len(calls) + 1
             /\ calls'[Len(calls')].pushedBefore = Len(pushed)
             /\ SubSeq(pushed', 1, Len(pushed)) = pushed]_vars

\* A region with text and a child element has been closed: the step that
\* handled the root's close tag pushed the open tag, the text, the child
\* and the close tag, after what had been pushed when the root was opened.
C25_Witness ==
    /\ JustCalled
    /\ calls[Len(calls)].arg.text # <<>>
    /\ calls[Len(calls)].arg.children # <<>>
    /\ Len(pushed) >= calls[Len(calls)].pushedBefore + 5
    /\ calls[Len(calls)].pushedBefore
          = Len(ItemsOf(SubSeq(events, 1, OpenOf(events, Len(events)) - 1)))
    /\ calls[Len(calls)].pushedBefore > 0

(***************************************************************************)
(* C26: outside regions every event is written by the step that handles    *)
(* it: the open tag of an element that no rule matches with its            *)
(* attributes, a text escaped, a close tag; each is one push, appended to   *)
(* the output, and nothing else changes the output in that step.  As long  *)
(* as no element has been matched the output is the markup of all the      *)
(* events handled.                                                         *)
(***************************************************************************)
\* The step handles an open, text or close event that is in no region.
HandlesOutsideRegions ==
    /\ Handles
    /\ events'[Len(events')].type \in {"opentag", "text", "closetag"}
    /\ ~Scan(events', Len(events')).inside[Len(events')]

C26_PassthroughWritesAtOnce ==
    [][HandlesOutsideRegions =>
          LET ev == events'[Len(events')]
          IN  /\ Len(pushed') = Len(pushed) + 1
              /\ SubSeq(pushed', 1, Len(pushed)) = pushed
              /\ ev.type = "opentag" =>
                    pushed'[Len(pushed')] =
                        "<" \o ev.node.name \o AttrsMarkup(ev.node.attributes) \o ">"
              /\ ev.type = "text" => pushed'[Len(pushed')] = xmlescape(ev.text)
              /\ ev.type = "closetag" => pushed'[Len(pushed')] = "</" \o ev.node.name \o ">"
              /\ calls = <<>> /\ pushed = ItemsOf(events) => pushed' = ItemsOf(events')]_vars

\* An element with attributes that no rule matches has been read, with the
\* chunk still being written: its open tag, text and close tag are out.
C26_Witness ==
    /\ pc = "write"
    /\ Len(events) = 3
    /\ pushed = << "<b k=\"&amp;\" m=\"v\">", "&lt;&amp;", "</b>" >>

(***************************************************************************)
(* C27: in a region a text event sets the text of the element it is        *)
(* directly inside, replacing the text an earlier event gave it, and       *)
(* changes the text of no other element.  The node the edit function is    *)
(* called with has, for every element of the subtree, the text of the last *)
(* text event directly inside it (none if there was none); a node that is  *)
(* written has its text before its children.                               *)
(***************************************************************************)
\* The text events directly inside the element opened by event i.
TextsIn(evs, i) ==
    SelectSeq(Indices(evs), LAMBDA j : j > i /\ evs[j].type = "text" /\ ParentOf(evs, j) = i)

\* The text of the last of them.
LastTextIn(evs, i) ==
    LET spans == TextsIn(evs, i)
    IN  IF spans = <<>> THEN <<>> ELSE <<evs[spans[Len(spans)]].text>>

\* The texts of the element opened by event i and of its descendants, as
\* the events give them.
RECURSIVE TextTreeAt(_, _)
TextTreeAt(evs, i) ==
    LET below == ChildOpens(evs, i)
    IN  [text |-> LastTextIn(evs, i),
         children |-> [k \in 1..Len(below) |-> TextTreeAt(evs, below[k])]]

\* The texts of an element and of its descendants.
RECURSIVE TextsOf(_)
TextsOf(element) ==
    [text |-> element.text,
     children |-> [k \in 1..Len(element.children) |-> TextsOf(element.children[k])]]

\* The step handles a text event that lies in a region.
BuffersText ==
    /\ Handles
    /\ events'[Len(events')].type = "text"
    /\ Scan(events', Len(events')).inside[Len(events')]

C27_LastTextWins ==
    [][/\ BuffersText =>
             LET top == ElementNo(events', ParentOf(events', Len(events')))
             IN  /\ heap'[top].text = <<events'[Len(events')].text>>
                 /\ \A id \in 1..Len(heap) : id # top => heap'[id] = heap[id]
                 /\ heap'[top] = [heap[top] EXCEPT !.text = heap'[top].text]
       /\ JustCalled' =>
             LET call == calls'[Len(calls')]
                 out == SubSeq(pushed', call.pushedBefore + 1, Len(pushed'))
             IN  /\ TextsOf(call.arg) = TextTreeAt(events', OpenOf(events', Len(events')))
                 /\ call.outcome.kind = "node" /\ out # <<>>
                       /\ call.outcome.node[1].text # <<>> =>
                       /\ out[2] = xmlescape(call.outcome.node[1].text[1])
                       /\ call.outcome.node[1].children # <<>> =>
                             out[3] = toOpenTag(call.outcome.node[1].children[1].name,
                                                call.outcome.node[1].children[1].attributes)]_vars

\* An edit function was called with an element that had a text, a child
\* element and a different text: it has the second text, and the text was
\* written before the child.
C27_Witness ==
    /\ JustCalled
    /\ LET i == OpenOf(events, Len(events))
           spans == TextsIn(events, i)
           call == calls[Len(calls)]
       IN  /\ Len(spans) = 2
           /\ events[spans[1]].text # events[spans[2]].text
           /\ ChildOpens(events, i) # <<>>
           /\ call.arg.text = <<events[spans[2]].text>>
           /\ pushed[call.pushedBefore + 2] = xmlescape(events[spans[2]].text)
           /\ pushed[call.pushedBefore + 3] = toOpenTag(call.arg.children[1].name,
                                                        call.arg.children[1].attributes)

(***************************************************************************)
(* C28: the edit function is called with a deep copy of the buffered       *)
(* subtree.  The argument reads as the buffered subtree does, and gives    *)
(* access to none of the buffered elements, attribute objects or children  *)
(* arrays; whatever the function changes in its argument, the call leaves  *)
(* every buffered element as it was, and of the parse stack only the       *)
(* region's root, which the close handler popped before the call, is gone. *)
(***************************************************************************)
C28_ArgumentIsDeepCopy ==
    [][Handles /\ JustCalled' =>
          LET call == calls'[Len(calls')]
          IN  /\ call.shared = {}
              /\ call.arg = ElementAt(heap, call.element)
              /\ heap' = heap
              /\ parseStack' = SubSeq(parseStack, 1, Len(parseStack) - 1)
              /\ parseStack[Len(parseStack)].element = call.element]_vars

\* An edit function was called with an element that has attributes, text
\* and a child, and changed all of them and the child: the buffered
\* element still reads as the argument did.
C28_Witness ==
    /\ JustCalled
    /\ LET call == calls[Len(calls)]
       IN  /\ call.arg.attributes # <<>>
           /\ call.arg.text # <<>>
           /\ call.arg.children # <<>>
           /\ call.outcome.kind = "node"
           /\ call.outcome.node[1].attributes # call.arg.attributes
           /\ call.outcome.node[1].text # call.arg.text
           /\ call.outcome.node[1].children[1] # call.arg.children[1]
           /\ Len(call.outcome.node[1].children) > Len(call.arg.children)
           /\ ElementAt(heap, call.element) = call.arg

(***************************************************************************)
(* C29: every _transform call invokes its completion callback once: the    *)
(* callbacks invoked are as many as the calls made, less the one whose     *)
(* chunk is being written.  No callback is invoked by a step that handles  *)
(* an event, and no event is handled between the callback of a chunk and   *)
(* the next call.  The callback of a chunk gets the error recorded when    *)
(* the parser has returned, which is an error exactly when one was         *)
(* recorded before the chunk or an event of the chunk was a parse error,   *)
(* a throwing edit function or a returned node that failed validation.     *)
(***************************************************************************)
\* A parse error was reported, an edit function threw or its node failed
\* validation, in this chunk or an earlier one.
SomethingFailed == HasParseError \/ LastCallThrew \/ LastCallInvalid

C29_CallbackOncePerChunk ==
    [][/\ Len(reported') = chunks' - (IF pc' = "write" THEN 1 ELSE 0)
       /\ Handles => reported' = reported /\ pc = "write" /\ pc' = "write"
       /\ TransformCalled =>
             /\ pc = "idle"
             /\ events' = events
             /\ IF error # <<>>
                THEN reported' = Append(reported, error) /\ pc' = "idle"
                ELSE reported' = reported /\ pc' = "write"
       /\ Completes =>
             /\ reported' = Append(reported, error)
             /\ events' = events /\ pushed' = pushed
             /\ error # <<>> <=> SomethingFailed
       /\ error # <<>> => error' # <<>>]_vars

\* Two chunks were written: the callback of the first got no error, the
\* callback of the second the error recorded while it was written, after
\* the events of both were handled and their output pushed.
C29_Witness ==
    /\ pc = "idle"
    /\ chunks = 2
    /\ reported[1] = <<>>
    /\ reported[2] # <<>>
    /\ reported[2] = error
    /\ \E i \in 2..Len(events) : events[i].type = "error" /\ i < Len(events)
    /\ Len(pushed) >= 3

(***************************************************************************)
(* C30: once the last close tag of a well-nested document without parse    *)
(* error events has been handled, and every edit function called has       *)
(* returned, no region is active, the parse stack is empty, and for every  *)
(* element that opened a region the edit function was called once, at the  *)
(* element's close tag, and the step that called it pushed the returned    *)
(* node's serialization or nothing.                                        *)
(***************************************************************************)
\* The events are those of a whole document: a root was opened and every
\* element opened is closed.
DocumentClosed ==
    /\ events # <<>>
    /\ events[Len(events)].type = "closetag"
    /\ OpenAfter(events, Len(events)) = <<>>

AllCallsReturned == \A k \in 1..Len(calls) : calls[k].outcome.kind # "throw"

\* What the step that made the call pushed: the result, or nothing.
PushedOrDropped(call) ==
    LET before == PushedAfter(call.at - 1)
        after == PushedAfter(call.at)
    IN  /\ Len(before) <= Len(after)
        /\ SubSeq(after, 1, Len(before)) = before
        /\ \/ after = before
           \/ /\ call.outcome.kind = "node"
              /\ JoinAll(SubSeq(after, Len(before) + 1, Len(after)))
                    = SerializationOf(call.outcome.node[1])

AllRegionsCommitted ==
    /\ elmToEditInfo = <<>>
    /\ parseStack = <<>>
    /\ CallSites = ExpectedCallSites(events)
    /\ \A k \in 1..Len(calls) : PushedOrDropped(calls[k])

C30_ClosedDocumentIsCommitted ==
    DocumentClosed /\ ~HasParseError /\ AllCallsReturned => AllRegionsCommitted

\* The same, for documents whose returned nodes all pass validation.
C30_ValidDocumentIsCommitted ==
    DocumentClosed /\ ~HasParseError /\ AllCallsReturned
       /\ (\A k \in 1..Len(calls) : calls[k].outcome.kind = "node" => Committed(calls[k]))
    => AllRegionsCommitted

\* A document with a region that was written is closed.
C30_ValidWitness ==
    /\ DocumentClosed
    /\ ~HasParseError
    /\ Len(calls) = 1
    /\ Committed(calls[1])
    /\ calls[1].pushedBefore > 0
    /\ error = <<>>

(***************************************************************************)
(* C31: an element of the parse stack that is neither the root of the      *)
(* subtree being edited nor inside it has no text and no children: text    *)
(* and children are kept only for the subtree being edited.  The root of   *)
(* a subtree that is or was being edited is a child of no element.         *)
(***************************************************************************)
\* The place on the parse stack of the root of the subtree being edited; 0
\* when no subtree is being edited or its root is not on the stack.
RegionRootIndex ==
    IF elmToEditInfo = <<>> THEN 0
    ELSE IF \E k \in 1..Len(parseStack) : parseStack[k].element = elmToEditInfo[1].element
    THEN CHOOSE k \in 1..Len(parseStack) : parseStack[k].element = elmToEditInfo[1].element
    ELSE 0

\* Entry k of the parse stack is the root of the subtree being edited or
\* an element inside it.
InRegionOnStack(k) == RegionRootIndex # 0 /\ k >= RegionRootIndex

HasContent(id) == heap[id].text # <<>> \/ heap[id].children # <<>>

\* The roots of the subtrees that were or are being edited.
RegionRoots ==
    {calls[k].element : k \in 1..Len(calls)}
        \cup (IF elmToEditInfo = <<>> THEN {} ELSE {elmToEditInfo[1].element})

C31_ContentOnlyInsideRegion ==
    /\ \A k \in 1..Len(parseStack) :
          HasContent(parseStack[k].element) => InRegionOnStack(k)
    /\ \A id \in 1..Len(heap) : \A i \in 1..Len(heap[id].children) :
          heap[id].children[i] \notin RegionRoots

\* After a subtree was edited and written, a sibling subtree is being
\* edited and has a text and a child; their parent is on the stack.
C31_Witness ==
    /\ Len(calls) = 1
    /\ calls[1].outcome.kind = "node"
    /\ RegionRootIndex = 2
    /\ Len(parseStack) = 2
    /\ heap[parseStack[2].element].text # <<>>
    /\ heap[parseStack[2].element].children # <<>>
    /\ ~HasContent(parseStack[1].element)

(***************************************************************************)
(* C32: the parse stack has one entry for every element that the events    *)
(* opened and have not closed, outermost first; the key of an entry's path *)
(* is the key of the entry below it, then one separator and the entry's    *)
(* element name, and the key of the bottom entry is a separator and its    *)
(* name.  A close event therefore finds its element on top of the stack    *)
(* and removes this entry only; no handler finds the stack empty.          *)
(***************************************************************************)
StillOpen == OpenAfter(events, Len(events))

PathKey(k) == parseStack[k].path.pathForMatching

C32_StackIsOpenElements ==
    /\ ~assertFailed
    /\ Len(parseStack) = Len(StillOpen)
    /\ \A k \in 1..Len(parseStack) :
          LET name == events[StillOpen[k]].node.name
          IN  /\ parseStack[k].element = ElementNo(events, StillOpen[k])
              /\ heap[parseStack[k].element].name = name
              /\ PathKey(k) = (IF k = 1 THEN "" ELSE PathKey(k - 1)) \o pathSeparator \o name

\* Three elements are open, after another was opened and closed.
C32_Witness ==
    /\ Len(parseStack) = 3
    /\ \E i \in 1..Len(events) : events[i].type = "closetag"
    /\ PathKey(3) = "@a@xb@b"

(***************************************************************************)
(* C33, as claimed: while a subtree is being edited, every element on the  *)
(* parse stack above the subtree's root is the last child of the element   *)
(* in the entry below it, attached when its open tag was handled.          *)
(***************************************************************************)
C33_AttachedAtOpenTag ==
    \A k \in 2..Len(parseStack) :
        InRegionOnStack(k - 1) =>
            LET children == heap[parseStack[k - 1].element].children
            IN  /\ children # <<>>
                /\ children[Len(children)] = parseStack[k].element

(***************************************************************************)
(* C33, as the handlers do it: an element inside the subtree being edited  *)
(* is added to the children of its parent when its close tag is handled.   *)
(* The children of an element on the parse stack are the elements opened   *)
(* directly inside it that are closed, in document order; an element that  *)
(* is still open is a child of no element.                                 *)
(***************************************************************************)
\* The open-tag events of the elements opened directly inside the element
\* of open-tag event i and closed since, in document order.
ClosedChildEvents(evs, i) ==
    SelectSeq(Indices(evs),
        LAMBDA j : /\ j > i
                   /\ evs[j].type = "opentag"
                   /\ OpenAfter(evs, j - 1) # <<>>
                   /\ OpenAfter(evs, j - 1)[Len(OpenAfter(evs, j - 1))] = i
                   /\ \A k \in 1..Len(OpenAfter(evs, Len(evs))) :
                         OpenAfter(evs, Len(evs))[k] # j)

ClosedChildrenOf(evs, i) ==
    LET closed == ClosedChildEvents(evs, i)
    IN  [k \in 1..Len(closed) |-> ElementNo(evs, closed[k])]

C33_AttachedAtCloseTag ==
    /\ \A k \in 1..Len(parseStack) :
          InRegionOnStack(k) =>
              heap[parseStack[k].element].children = ClosedChildrenOf(events, StillOpen[k])
    /\ \A k \in 1..Len(parseStack) : \A id \in 1..Len(heap) :
          \A i \in 1..Len(heap[id].children) : heap[id].children[i] # parseStack[k].element

\* Inside the subtree being edited an element has a closed child and an
\* open one: the first is its only child.
C33_Witness ==
    /\ RegionRootIndex # 0
    /\ Len(parseStack) > RegionRootIndex
    /\ events[Len(events)].type = "opentag"
    /\ Len(heap[parseStack[Len(parseStack) - 1].element].children) = 1
    /\ heap[parseStack[Len(parseStack) - 1].element].children[1]
          # parseStack[Len(parseStack)].element

(***************************************************************************)
(* C34: the end of the input is no step of the transformer.  It pushes     *)
(* nothing, calls no edit function, records and reports no error, and      *)
(* nothing happens after it.  So when the input ends while a subtree is    *)
(* being edited, the subtree stays buffered: nothing was pushed since the  *)
(* open tag of its root, its edit function was not called, and an input    *)
(* without error so far has none reported for the missing close tag.       *)
(***************************************************************************)
InputEnds == pc # "ended" /\ pc' = "ended"

C34_EndOfInputDoesNothing ==
    [][/\ pc # "ended"
       /\ InputEnds =>
             /\ pc = "idle"
             /\ pushed' = pushed
             /\ calls' = calls
             /\ error' = error
             /\ reported' = reported
             /\ parserClosed' = parserClosed
             /\ elmToEditInfo' = elmToEditInfo
             /\ parseStack' = parseStack
             /\ heap' = heap
             /\ RegionRootIndex # 0 =>
                   /\ pushed' = PushedAfter(StillOpen[RegionRootIndex] - 1)
                   /\ \A k \in 1..Len(calls') :
                         calls'[k].element # elmToEditInfo[1].element
                   /\ ~HasParseError =>
                         error' = <<>> /\ \A i \in 1..Len(reported') : reported'[i] = <<>>]_vars

\* The input has ended inside a subtree being edited, which has a text and
\* a child, after output was pushed; no error was recorded or reported.
C34_Witness ==
    /\ pc = "ended"
    /\ RegionRootIndex # 0
    /\ HasContent(elmToEditInfo[1].element)
    /\ pushed # <<>>
    /\ error = <<>>
    /\ reported # <<>>
    /\ calls = <<>>
====
